---- MODULE Spec2Model ----
(***************************************************************************)
(* Model of the ai-decor backend recommendation pipeline:                  *)
(*   routes/recommendations.py  (get_recommendations,                      *)
(*                               get_fast_recommendations and helpers)     *)
(*   agents/chat_agent.py       (ChatAgent.__init__, generate_reasoning)   *)
(*   agents/store_inventory_agent.py (StoreInventoryAgent.search_artwork)  *)
(*   db/faiss_client.py         (FAISSClient)                              *)
(*   models/recommendation.py   (ArtworkRecommendation validation)         *)
(*                                                                         *)
(* Strings that the code inspects character by character (image URLs) are  *)
(* tuples of one-character strings.  Time is counted in whole seconds.     *)
(***************************************************************************)
EXTENDS Integers, Sequences, FiniteSets, TLC

(***************************************************************************)
(* Image URL texts.  The state holds URL names; UrlText gives the text.    *)
(***************************************************************************)

\* "https://via.placeholder.com/400"
TXT_PLACEHOLDER ==
  <<
    "h","t","t","p","s",":","/","/","v","i","a",".","p","l","a","c","e","h",
    "o","l","d","e","r",".","c","o","m","/","4","0","0" >>

\* "http://localhost:8000/uploads/artworks/a1.jpg"
TXT_FAISS_A ==
  <<
    "h","t","t","p",":","/","/","l","o","c","a","l","h","o","s","t",":","8",
    "0","0","0","/","u","p","l","o","a","d","s","/","a","r","t","w","o","r",
    "k","s","/","a","1",".","j","p","g" >>

\* "http://localhost:8000/uploads/artworks/b2.jpg"
TXT_FAISS_B ==
  <<
    "h","t","t","p",":","/","/","l","o","c","a","l","h","o","s","t",":","8",
    "0","0","0","/","u","p","l","o","a","d","s","/","a","r","t","w","o","r",
    "k","s","/","b","2",".","j","p","g" >>

\* "https://images.unsplash.com/photo-1541961017774-22349e4a1262?w=800"
TXT_MOCK_1 ==
  <<
    "h","t","t","p","s",":","/","/","i","m","a","g","e","s",".","u","n","s",
    "p","l","a","s","h",".","c","o","m","/","p","h","o","t","o","-","1","5",
    "4","1","9","6","1","0","1","7","7","7","4","-","2","2","3","4","9","e",
    "4","a","1","2","6","2","?","w","=","8","0","0" >>

\* "https://images.unsplash.com/photo-1547826039-bfc35e0f1ea8?w=800"
TXT_MOCK_2 ==
  <<
    "h","t","t","p","s",":","/","/","i","m","a","g","e","s",".","u","n","s",
    "p","l","a","s","h",".","c","o","m","/","p","h","o","t","o","-","1","5",
    "4","7","8","2","6","0","3","9","-","b","f","c","3","5","e","0","f","1",
    "e","a","8","?","w","=","8","0","0" >>

\* "https://images.unsplash.com/photo-1541961017774-22349e4a1262?ixlib=rb-4.0.3&w=1080"
TXT_CAT_1 ==
  <<
    "h","t","t","p","s",":","/","/","i","m","a","g","e","s",".","u","n","s",
    "p","l","a","s","h",".","c","o","m","/","p","h","o","t","o","-","1","5",
    "4","1","9","6","1","0","1","7","7","7","4","-","2","2","3","4","9","e",
    "4","a","1","2","6","2","?","i","x","l","i","b","=","r","b","-","4",".",
    "0",".","3","&","w","=","1","0","8","0" >>

\* "https://images.unsplash.com/photo-1513519245088-0e12902e35ca?ixlib=rb-4.0.3&w=1080"
TXT_CAT_2 ==
  <<
    "h","t","t","p","s",":","/","/","i","m","a","g","e","s",".","u","n","s",
    "p","l","a","s","h",".","c","o","m","/","p","h","o","t","o","-","1","5",
    "1","3","5","1","9","2","4","5","0","8","8","-","0","e","1","2","9","0",
    "2","e","3","5","c","a","?","i","x","l","i","b","=","r","b","-","4",".",
    "0",".","3","&","w","=","1","0","8","0" >>

\* "https://images.unsplash.com/photo-1579783902614-a3fb3927b6a5?ixlib=rb-4.0.3&w=1080"
TXT_CAT_3 ==
  <<
    "h","t","t","p","s",":","/","/","i","m","a","g","e","s",".","u","n","s",
    "p","l","a","s","h",".","c","o","m","/","p","h","o","t","o","-","1","5",
    "7","9","7","8","3","9","0","2","6","1","4","-","a","3","f","b","3","9",
    "2","7","b","6","a","5","?","i","x","l","i","b","=","r","b","-","4",".",
    "0",".","3","&","w","=","1","0","8","0" >>

\* "https://cdn.pixabay.com/photo/2017/08/30/art-2695569_1280.jpg"
TXT_PIXABAY ==
  <<
    "h","t","t","p","s",":","/","/","c","d","n",".","p","i","x","a","b","a",
    "y",".","c","o","m","/","p","h","o","t","o","/","2","0","1","7","/","0",
    "8","/","3","0","/","a","r","t","-","2","6","9","5","5","6","9","_","1",
    "2","8","0",".","j","p","g" >>

\* "https://images.unsplash.com/photo-1513519245088-0e12902e35ca?w=800"
TXT_STATIC_2 ==
  <<
    "h","t","t","p","s",":","/","/","i","m","a","g","e","s",".","u","n","s",
    "p","l","a","s","h",".","c","o","m","/","p","h","o","t","o","-","1","5",
    "1","3","5","1","9","2","4","5","0","8","8","-","0","e","1","2","9","0",
    "2","e","3","5","c","a","?","w","=","8","0","0" >>

\* "https://images.unsplash.com/photo-1578926375605-eaf7559b0220?w=800"
TXT_STATIC_3 ==
  <<
    "h","t","t","p","s",":","/","/","i","m","a","g","e","s",".","u","n","s",
    "p","l","a","s","h",".","c","o","m","/","p","h","o","t","o","-","1","5",
    "7","8","9","2","6","3","7","5","6","0","5","-","e","a","f","7","5","5",
    "9","b","0","2","2","0","?","w","=","8","0","0" >>

\* "https://images.unsplash.com/photo-1579783902614-a3fb3927b6a5?w=800"
TXT_TAVILY_PH ==
  <<
    "h","t","t","p","s",":","/","/","i","m","a","g","e","s",".","u","n","s",
    "p","l","a","s","h",".","c","o","m","/","p","h","o","t","o","-","1","5",
    "7","9","7","8","3","9","0","2","6","1","4","-","a","3","f","b","3","9",
    "2","7","b","6","a","5","?","w","=","8","0","0" >>

\* "https://images.unsplash.com/photo-1549887534-1541e9326642?ixlib=rb-4.0.3&w=1080"
TXT_UNSPLASH_B ==
  <<
    "h","t","t","p","s",":","/","/","i","m","a","g","e","s",".","u","n","s",
    "p","l","a","s","h",".","c","o","m","/","p","h","o","t","o","-","1","5",
    "4","9","8","8","7","5","3","4","-","1","5","4","1","e","9","3","2","6",
    "6","4","2","?","i","x","l","i","b","=","r","b","-","4",".","0",".","3",
    "&","w","=","1","0","8","0" >>

\* "https://images.unsplash.com/photo-1561214115-f2f134cc4912?w=800"
TXT_MOCK_4 ==
  <<
    "h","t","t","p","s",":","/","/","i","m","a","g","e","s",".","u","n","s",
    "p","l","a","s","h",".","c","o","m","/","p","h","o","t","o","-","1","5",
    "6","1","2","1","4","1","1","5","-","f","2","f","1","3","4","c","c","4",
    "9","1","2","?","w","=","8","0","0" >>

\* "https://images.unsplash.com/photo-1583847268964-b28dc8f51f92?w=800"
TXT_MOCK_5 ==
  <<
    "h","t","t","p","s",":","/","/","i","m","a","g","e","s",".","u","n","s",
    "p","l","a","s","h",".","c","o","m","/","p","h","o","t","o","-","1","5",
    "8","3","8","4","7","2","6","8","9","6","4","-","b","2","8","d","c","8",
    "f","5","1","f","9","2","?","w","=","8","0","0" >>

\* The Python value None (a missing / null field).
None == "None"

\* Names of the image URLs that occur in the model.
UrlNames ==
  { "placeholder", "faiss_a", "faiss_b", "mock_1", "mock_2",
    "cat_1", "cat_2", "cat_3", "pixabay",
    "static_2", "static_3", "tavily_ph", "unsplash_b", "mock_4", "mock_5" }

UrlText(u) ==
  CASE u = "placeholder" -> TXT_PLACEHOLDER
    [] u = "faiss_a"     -> TXT_FAISS_A
    [] u = "faiss_b"     -> TXT_FAISS_B
    [] u = "mock_1"      -> TXT_MOCK_1
    [] u = "mock_2"      -> TXT_MOCK_2
    [] u = "cat_1"       -> TXT_CAT_1
    [] u = "cat_2"       -> TXT_CAT_2
    [] u = "cat_3"       -> TXT_CAT_3
    [] u = "pixabay"     -> TXT_PIXABAY
    [] u = "static_2"    -> TXT_STATIC_2
    [] u = "static_3"    -> TXT_STATIC_3
    [] u = "tavily_ph"   -> TXT_TAVILY_PH
    [] u = "unsplash_b"  -> TXT_UNSPLASH_B
    [] u = "mock_4"      -> TXT_MOCK_4
    [] u = "mock_5"      -> TXT_MOCK_5

(***************************************************************************)
(* String helpers (Python str / re semantics on character tuples).         *)
(***************************************************************************)

Digits == { "0","1","2","3","4","5","6","7","8","9" }

Letters ==
  { "a","b","c","d","e","f","g","h","i","j","k","l","m","n","o","p","q",
    "r","s","t","u","v","w","x","y","z",
    "A","B","C","D","E","F","G","H","I","J","K","L","M","N","O","P","Q",
    "R","S","T","U","V","W","X","Y","Z" }

\* The character class [A-Za-z0-9_-].
IdChars == Letters \cup Digits \cup { "_", "-" }

\* s[i..] starts with the text pat.
StartsAt(s, i, pat) ==
  /\ i >= 1
  /\ i + Len(pat) - 1 <= Len(s)
  /\ \A k \in 1..Len(pat) : s[i + k - 1] = pat[k]

\* Python: pat in s.
Contains(s, pat) == \E i \in 1..Len(s) : StartsAt(s, i, pat)

\* Last index of the maximal run of characters of class cls starting at i
\* (i - 1 when s[i] is not in cls).
RunEnd(s, i, cls) ==
  LET stops == { k \in i..Len(s) : s[k] \notin cls }
  IN  IF stops = {} THEN Len(s)
      ELSE (CHOOSE k \in stops : \A m \in stops : k <= m) - 1

NonSlash(s) == { s[k] : k \in 1..Len(s) } \ { "/" }

\* Python: url.split('?')[0].
BeforeQuery(s) ==
  LET qs == { k \in 1..Len(s) : s[k] = "?" }
  IN  IF qs = {} THEN s
      ELSE SubSeq(s, 1, (CHOOSE k \in qs : \A m \in qs : k <= m) - 1)

\* No match of a regular expression (group 1 is never empty).
NoMatch == <<>>

\* re.search(r'/photo[s]?/[^/]*-([A-Za-z0-9_-]+)', s): group 1, or NoMatch.
\* At a start p the prefix is "/photo/" or "/photos/"; [^/]* is greedy, so
\* the dash is the last one of the path segment that an id character follows.
Regex1Seg(s, p) ==
  IF StartsAt(s, p, <<"/","p","h","o","t","o","s","/">>) THEN p + 8
  ELSE IF StartsAt(s, p, <<"/","p","h","o","t","o","/">>) THEN p + 7
  ELSE 0

Regex1Dashes(s, p) ==
  LET q == Regex1Seg(s, p)
      e == RunEnd(s, q, NonSlash(s))
  IN  IF q = 0 THEN {}
      ELSE { j \in q..e : s[j] = "-" /\ j + 1 <= Len(s) /\ s[j + 1] \in IdChars }

Regex1(s) ==
  LET starts == { p \in 1..Len(s) : Regex1Dashes(s, p) # {} }
  IN  IF starts = {} THEN NoMatch
      ELSE LET p == CHOOSE x \in starts : \A y \in starts : x <= y
               ds == Regex1Dashes(s, p)
               j == CHOOSE x \in ds : \A y \in ds : x >= y
           IN  SubSeq(s, j + 1, RunEnd(s, j + 1, IdChars))

\* re.search(r'/photo-\d+-([A-Za-z0-9_-]+)\?', s): group 1, or NoMatch.
Regex2At(s, p) ==
  LET d1 == p + 7
      d2 == RunEnd(s, d1, Digits)
      g1 == d2 + 2
      g2 == RunEnd(s, g1, IdChars)
  IN  IF /\ StartsAt(s, p, <<"/","p","h","o","t","o","-">>)
         /\ d2 >= d1
         /\ d2 + 1 <= Len(s) /\ s[d2 + 1] = "-"
         /\ g2 >= g1
         /\ g2 + 1 <= Len(s) /\ s[g2 + 1] = "?"
      THEN SubSeq(s, g1, g2)
      ELSE NoMatch

Regex2(s) ==
  LET starts == { p \in 1..Len(s) : Regex2At(s, p) # NoMatch }
  IN  IF starts = {} THEN NoMatch
      ELSE Regex2At(s, CHOOSE x \in starts : \A y \in starts : x <= y)

\* extract_photo_id(url) on a URL text.
ExtractPhotoIdText(s) ==
  IF s = <<>> THEN s
  ELSE LET m1 == Regex1(s)
           m  == IF m1 = NoMatch THEN Regex2(s) ELSE m1
       IN  IF Contains(s, <<"u","n","s","p","l","a","s","h",".","c","o","m">>)
              /\ m # NoMatch
           THEN m
           ELSE BeforeQuery(s)

\* extract_photo_id on a URL name.  A falsy url (None) is returned as it is;
\* its key is written <<>> here.
extract_photo_id(u) ==
  IF u = None THEN <<>> ELSE ExtractPhotoIdText(UrlText(u))

\* The identity key of every URL of the model, computed once.
PhotoKey == [ u \in UrlNames |-> extract_photo_id(u) ]


(***************************************************************************)
(* Numbers.  A match score is an exact fraction <<numerator, denominator>>.*)
(***************************************************************************)

Frac(n, d) == <<n, d>>
FracLt(a, b) == a[1] * b[2] < b[1] * a[2]
FracLeq(a, b) == a[1] * b[2] <= b[1] * a[2]
FracEq(a, b) == a[1] * b[2] = b[1] * a[2]

\* Python's f"{x:.0f}": round to the nearest integer, ties to even.
RoundHalfEven(a) ==
  LET q == a[1] \div a[2]
      r == a[1] % a[2]
  IN  IF 2 * r < a[2] THEN q
      ELSE IF 2 * r > a[2] THEN q + 1
      ELSE IF q % 2 = 0 THEN q ELSE q + 1

(***************************************************************************)
(* Sequence helpers.                                                       *)
(***************************************************************************)

Min(a, b) == IF a <= b THEN a ELSE b

\* Python: s[:n] for n >= 0.
Take(s, n) == SubSeq(s, 1, Min(n, Len(s)))

\* All sequences over S of length at most n.
SeqsUpTo(S, n) == UNION { [1..k -> S] : k \in 0..n }

\* Python's list.sort (stable): before[p, q] holds when the key of s[p]
\* sorts strictly before the key of s[q].
StableSort(s, before) ==
  LET n == Len(s)
      rank(p) ==
        Cardinality({ q \in 1..n :
                        \/ before[q, p]
                        \/ (~ before[p, q] /\ q < p) }) + 1
  IN  [ r \in 1..n |-> s[CHOOSE p \in 1..n : rank(p) = r] ]

(***************************************************************************)
(* StoreInventoryAgent (agents/store_inventory_agent.py).                  *)
(***************************************************************************)

\* The provider chain in its priority order (search_artwork, priorities 1-5).
\* A chain that asks Tavily before Unsplash: not the order of the code.
ChainTavilyFirst == << "tavily", "unsplash", "pixabay", "pexels", "google" >>

ProviderChain == << "unsplash", "tavily", "pixabay", "pexels", "google" >>
Providers == { ProviderChain[i] : i \in 1..Len(ProviderChain) }

StoreItem(id, img) == [ id |-> id, image_url |-> img ]

\* What a provider's _search_* may put in a result: the image_url is read
\* from the provider's answer with .get() and may be missing (None), except
\* for Tavily, which substitutes a placeholder picture.
ProviderItems(p) ==
  CASE p = "unsplash" -> { StoreItem("unsplash_a", "cat_1"),
                           StoreItem("unsplash_b", "unsplash_b"),
                           StoreItem("unsplash_c", None) }
    [] p = "tavily"   -> { StoreItem("tavily_1", "tavily_ph") }
    [] p = "pixabay"  -> { StoreItem("pixabay_1", "pixabay"),
                           StoreItem("pixabay_2", None) }
    [] p = "pexels"   -> { StoreItem("pexels_1", "pixabay") }
    [] p = "google"   -> { StoreItem("google_1", "faiss_a"),
                           StoreItem("google_2", None) }

\* _get_mock_artwork_with_real_links: mock_items[:limit].
MockArtwork(limit) ==
  Take(<< StoreItem("mock_society6_001", "mock_1"),
          StoreItem("mock_redbubble_001", "mock_2"),
          StoreItem("mock_artfinder_001", "tavily_ph"),
          StoreItem("mock_minted_001", "mock_4"),
          StoreItem("mock_icanvas_001", "mock_5") >>, limit)

\* The walk of search_artwork from chain position i on.  resp[p] is the list
\* provider p answers with (a provider that raises answers <<>>: every
\* _search_* call sits in a try/except); it is asked for the number of
\* results still missing.  Unsplash and Tavily return early when the limit
\* is reached.
RECURSIVE ChainWalk(_, _, _, _, _)
ChainWalk(keys, resp, limit, i, results) ==
  IF i > Len(ProviderChain) THEN results
  ELSE LET p == ProviderChain[i]
           asked == p \in keys /\ Len(results) < limit
           got == IF asked
                    THEN results \o Take(resp[p], limit - Len(results))
                    ELSE results
       IN  IF asked /\ i <= 2 /\ Len(got) >= limit
             THEN Take(got, limit)
             ELSE ChainWalk(keys, resp, limit, i + 1, got)

\* search_artwork(query, style, limit) of an agent holding the credentials
\* `keys`, when the providers answer resp.
search_artwork(keys, resp, limit) ==
  LET results == ChainWalk(keys, resp, limit, 1, <<>>)
  IN  Take(IF results = <<>> THEN MockArtwork(limit) ELSE results, limit)

(***************************************************************************)
(* FAISSClient (db/faiss_client.py).                                       *)
(***************************************************************************)

\* An entry of the metadata list.  image_url is a URL name, or Absent when
\* the entry has no "image_url" key (as the entries of scripts/init_faiss.py).
Absent == "absent"
Meta(id, img, style) == [ id |-> id, image_url |-> img, style |-> style ]

\* A FAISSClient: ntotal vectors and the metadata list.
FaissClient(n, md) == [ ntotal |-> n, metadata |-> md ]

\* A search that returns the first vectors in insertion order: it leaves out
\* the ordering by distance of index.search.
FaissSearchInsertionOrder(client, qdist, k) ==
  IF client.ntotal = 0 THEN <<>>
  ELSE LET n == Min(k, client.ntotal)
           kept == SelectSeq([ i \in 1..n |-> i ],
                             LAMBDA i : i <= Len(client.metadata))
       IN  [ r \in 1..Len(kept) |->
               [ dist |-> qdist[kept[r]], meta |-> client.metadata[kept[r]] ] ]

\* FAISSClient.search(query_vector, k).  The query is given by qdist, its
\* distance (in units of 1/DistDen) to each indexed vector.  The result is
\* the sequence of (distance, metadata) pairs, nearest first.
FaissSearch(client, qdist, k) ==
  IF client.ntotal = 0 THEN <<>>
  ELSE LET n == Min(k, client.ntotal)
           ids == [ i \in 1..client.ntotal |-> i ]
           nearer == [ a, b \in 1..client.ntotal |-> qdist[a] < qdist[b] ]
           hits == Take(StableSort(ids, nearer), n)
           kept == SelectSeq(hits, LAMBDA i : i <= Len(client.metadata))
       IN  [ r \in 1..Len(kept) |->
               [ dist |-> qdist[kept[r]], meta |-> client.metadata[kept[r]] ] ]

(***************************************************************************)
(* Local catalog (routes/recommendations.py).                              *)
(***************************************************************************)

\* A catalog item; category is its search query with '_' for ' ' (as
\* scripts/build_catalog.py writes it); words is the set of style keywords that occur in the
\* item's lower-cased title, description and tags.
CatalogItem(id, img, category, words) ==
  [ id |-> id, image_url |-> img, category |-> category, words |-> words ]

\* item['category'].replace('_', ' ').title() for the categories of the model.
CategoryTitle(category) ==
  CASE category = "abstract_art"      -> "Abstract Art"
    [] category = "minimalist_poster" -> "Minimalist Poster"
    [] category = "ocean_waves"       -> "Ocean Waves"

\* style.lower().split() of the style strings of the model.
StyleKeywords(style) ==
  CASE style = "Modern"          -> << "modern" >>
    [] style = "Modern Abstract" -> << "modern", "abstract" >>
    [] style = "Rustic"          -> << "rustic" >>

\* The keyword score of an item: one point per style keyword found in it.
KeywordScore(item, kws) ==
  Cardinality({ k \in 1..Len(kws) : kws[k] \in item.words })

\* random.sample(catalog, k): any k entries at distinct positions, any order.
RandomSamples(catalog, k) ==
  { [ i \in 1..k |-> catalog[f[i]] ] :
      f \in { g \in [1..k -> 1..Len(catalog)] :
                \A a, b \in 1..k : a # b => g[a] # g[b] } }

\* A selection that leaves out scored_items.sort: the scored items in
\* catalog order.
CatalogUnsorted(catalog, style, limit) ==
  IF catalog = <<>> THEN { <<>> }
  ELSE LET kws == StyleKeywords(style)
           scored == SelectSeq(catalog, LAMBDA it : KeywordScore(it, kws) > 0)
       IN  IF scored # <<>>
             THEN { Take(scored, limit) }
             ELSE RandomSamples(catalog, Min(limit, Len(catalog)))

\* get_local_catalog_recommendations(style, limit): the lists it may return.
get_local_catalog_recommendations(catalog, style, limit) ==
  IF catalog = <<>> THEN { <<>> }
  ELSE LET kws == StyleKeywords(style)
           scored == SelectSeq(catalog, LAMBDA it : KeywordScore(it, kws) > 0)
           higher == [ a, b \in 1..Len(scored) |->
                         KeywordScore(scored[a], kws) > KeywordScore(scored[b], kws) ]
       IN  IF scored # <<>>
             THEN { Take(StableSort(scored, higher), limit) }
             ELSE RandomSamples(catalog, Min(limit, Len(catalog)))

(***************************************************************************)
(* State.                                                                  *)
(***************************************************************************)
VARIABLES
  environ,        \* os.environ: the set of environment variables that are set
  chat_agent,     \* ChatAgent singleton: [provider, api_key]
  cpc,            \* generate_reasoning call: "idle", "request", "returned"
  cargs,          \* arguments of the call in progress
  cattempted,     \* reasoning provider whose request was attempted, or None
  cret,           \* value returned by generate_reasoning, or NoText
  store_agent,    \* StoreInventoryAgent singleton: the providers with a key
  LOCAL_CATALOG,  \* the catalog loaded at import
  index_file,     \* the persisted index: [state, ntotal, metadata]
  faiss_client,   \* _faiss_client singleton: NoClient or a FaissClient
  request,        \* the RecommendationRequest being served
  pc,             \* position of the request handler
  trends,         \* get_recommendations: trends
  candidates,     \* zip(distances, results) of the FAISS search
  tasks,          \* the _process_artwork_recommendation tasks of the gather
  recommendations,\* the handler's recommendations list
  local_recs,     \* local_catalog_recommendations
  work,           \* items still to be processed by the current loop
  response,       \* the answer of the handler
  now,            \* seconds since the store lookups of the request began
  lookups,        \* the search_artwork calls in progress on the event loop
  lpc,            \* lookup phase: "idle", "lookups", "finished"
  lookup_end,     \* value of now when the last lookup ended, or NoTime
  answered,       \* whether some provider request got an answer
  artworks,       \* enrich-reasoning: request.artworks
  enrich_tasks,   \* enrich-reasoning: the generate_single_reasoning tasks
  epc,            \* enrich-reasoning: position of the handler
  enrich_response,\* enrich-reasoning: the answer of the handler
  slimit,         \* search_artwork: the limit argument
  spc,            \* search_artwork: position (idle, walk, done, raised)
  spos,           \* search_artwork: chain position of the next provider
  sresults,       \* search_artwork: results
  scalls,         \* search_artwork: the _search_* calls made so far
  sret,           \* search_artwork: the returned list
  body,           \* the JSON body of the last recommend request received
  fvectors,       \* FAISS: the vectors of the index, in insertion order
  fquery,         \* FAISS: the caller's query array
  fout,           \* FAISS: the last search or search_by_style call
  fagain,         \* FAISS: the last call made once more
  search_queries, \* search_query of each task of the request, in task order
  cat_call,       \* the last call of get_local_catalog_recommendations and its result
  key_call        \* two URLs given to extract_photo_id and the keys returned

chatVars == <<environ, chat_agent, cpc, cargs, cattempted, cret>>
configVars == <<store_agent, LOCAL_CATALOG, index_file>>
handlerVars ==
  <<faiss_client, request, pc, trends, candidates, tasks, recommendations,
    local_recs, work, response>>
loopVars == <<now, lookups, lpc, lookup_end, answered>>
enrichVars == <<artworks, enrich_tasks, epc, enrich_response>>
searchVars == <<slimit, spc, spos, sresults, scalls, sret>>
wireVars == <<body>>
faissVars == <<fvectors, fquery, fout, fagain>>
queryVars == <<search_queries>>
catalogVars == <<cat_call>>
keyVars == <<key_call>>
vars == <<chatVars, configVars, handlerVars, loopVars, enrichVars, searchVars, wireVars, faissVars, queryVars, catalogVars, keyVars>>

(***************************************************************************)
(* ChatAgent (agents/chat_agent.py).                                       *)
(***************************************************************************)

ChatEnvVars ==
  { "USE_OLLAMA", "OLLAMA_BASE_URL", "GROQ_API_KEY", "GEMINI_API_KEY",
    "OPENAI_API_KEY" }

\* ChatAgent.__init__: provider priority Ollama > Groq > Gemini > OpenAI.
\* "USE_OLLAMA" in the set stands for USE_OLLAMA == "true".
ChatAgentInit(env) ==
  IF "USE_OLLAMA" \in env \/ "OLLAMA_BASE_URL" \in env
    THEN [provider |-> "ollama", api_key |-> None]
  ELSE IF "GROQ_API_KEY" \in env
    THEN [provider |-> "groq", api_key |-> "GROQ_API_KEY"]
  ELSE IF "GEMINI_API_KEY" \in env
    THEN [provider |-> "gemini", api_key |-> "GEMINI_API_KEY"]
  ELSE IF "OPENAI_API_KEY" \in env
    THEN [provider |-> "openai", api_key |-> "OPENAI_API_KEY"]
  ELSE [provider |-> None, api_key |-> None]

ReasoningProviders == { "ollama", "groq", "gemini", "openai" }

\* The fallback text of generate_reasoning:
\* f"This {artwork_style} piece complements your {room_style or 'room'}
\*   with a {match_score:.0f}% match."
ReasoningTemplate(artwork_style, room_style, match_score) ==
  [ kind  |-> "template",
    style |-> artwork_style,
    room  |-> IF room_style = None THEN "room" ELSE room_style,
    score |-> RoundHalfEven(match_score) ]

\* Text produced by a reasoning provider.
LlmText == [ kind |-> "llm" ]

\* No text (no call has returned).
NoText == [ kind |-> "none" ]

\* No call in progress.
NoArgs == [ style |-> None, room |-> None, score |-> Frac(0, 1) ]

\* generate_reasoning up to its first await: "template" when it returns the
\* template at once (no api_key, or no known provider), "request" when it
\* awaits the provider's _<provider>_reasoning_request.
ReasoningRoute(agent) ==
  IF agent.api_key = None THEN "template"
  ELSE IF agent.provider \in ReasoningProviders THEN "request"
  ELSE "template"

(***************************************************************************)
(* The request handlers of routes/recommendations.py.                      *)
(***************************************************************************)

\* ---- bounds of the model ----
MaxLimit == 3            \* request.limit ranges over 1..MaxLimit
MaxProviderResults == 2  \* a provider answers with at most this many items
MaxDist == 2             \* FAISS distances are 0..MaxDist, in units of 1/DistDen

\* The unit of distance is 1/DistDen.
DistDen == 10

\* ---- program constants ----
LocalQuota == 2          \* get_local_catalog_recommendations(room_style, limit=2)
FullLocalScore == 85     \* match_score of a catalog item, get_recommendations
FastLocalScore == 92     \* match_score of a catalog item, fast endpoint
FastOnlineScore == 88    \* match_score of an online item, fast endpoint
FastOnlineLimit == 3     \* search_artwork(limit=3) of the fast endpoint
FastOnlineMax == 2       \* the fast endpoint adds at most 2 online items
EnrichLimit == 1         \* search_artwork(limit=1) of an enrichment task
KeepOnline == 1          \* recommendations[:1]
MaxTrends == 5           \* trends[:5]

\* A score that falls linearly with the distance: similarity = 1.0 - dist.
MatchScoreLinear(dist) == Frac(100 * (DistDen - dist), DistDen)

\* similarity = 1.0 / (1.0 + dist); match_score = similarity * 100.
MatchScore(dist) == Frac(100 * DistDen, DistDen + dist)

\* _faiss_client is None.
NoClient == [ ntotal |-> -1, metadata |-> <<>> ]

IndexFile(state, n, md) == [ state |-> state, ntotal |-> n, metadata |-> md ]

\* FAISSClient.__init__: load_index when the index file exists (load_index
\* re-raises what faiss.read_index raises; a missing metadata file leaves
\* metadata = []), create_index otherwise.
FaissClientInit(file) ==
  CASE file.state = "absent"  ->
         [ raised |-> FALSE, client |-> FaissClient(0, <<>>) ]
    [] file.state = "corrupt" ->
         [ raised |-> TRUE, client |-> NoClient ]
    [] file.state = "nometa"  ->
         [ raised |-> FALSE, client |-> FaissClient(file.ntotal, <<>>) ]
    [] file.state = "good"    ->
         [ raised |-> FALSE, client |-> FaissClient(file.ntotal, file.metadata) ]

\* get_faiss_client(): the singleton, constructed on first use.
get_faiss_client(client, file) ==
  IF client = NoClient THEN FaissClientInit(file)
  ELSE [ raised |-> FALSE, client |-> client ]

\* artwork_meta.get('image_url', 'https://via.placeholder.com/400').
MetaImage(meta) ==
  IF meta.image_url = Absent THEN "placeholder" ELSE meta.image_url

\* pydantic's validation of ArtworkRecommendation(image_url: HttpUrl): every
\* URL name of the model is a valid http(s) URL; None is rejected.
Validates(image_url) == image_url # None

\* An ArtworkRecommendation.  origin tells where its id comes from: "faiss"
\* (a FAISS candidate), "catalog", "store" (a store agent result) or "static"
\* (mock_data_raw); enriched tells whether a store result replaced the FAISS
\* metadata defaults.
Rec(id, img, score, origin, enriched, reasoning) ==
  [ id |-> id, image_url |-> img, match_score |-> score, origin |-> origin,
    enriched |-> enriched, reasoning |-> reasoning ]

\* request.user_style or request.room_style or "Modern".
RoomStyle(req) == IF req.style = None THEN "Modern" ELSE req.style

\* What an awaited generate_reasoning call may do: return the provider's
\* text, return the template (at once, or after the request raised), or
\* never return ("hang": no call site and no provider request sets a
\* deadline shorter than the provider's own).
ReasoningOutcomes(agent) ==
  IF ReasoningRoute(agent) = "template" THEN { "template" }
  ELSE { "llm", "template", "hang" }

ReasoningValue(out, artwork_style, room_style, score) ==
  IF out = "llm" THEN LlmText
  ELSE ReasoningTemplate(artwork_style, room_style, score)

\* The answers of the providers to one search_artwork call asking for at
\* most `want` results: resp[p] for every provider p.
ProviderAnswers(keys, p, want) ==
  IF p \in keys
    THEN SeqsUpTo(ProviderItems(p), Min(want, MaxProviderResults))
    ELSE { <<>> }

Responses(keys, want) ==
  { [ p \in Providers |->
        CASE p = "unsplash" -> a1 [] p = "tavily" -> a2 [] p = "pixabay" -> a3
          [] p = "pexels" -> a4 [] p = "google" -> a5 ] :
      a1 \in ProviderAnswers(keys, "unsplash", want),
      a2 \in ProviderAnswers(keys, "tavily", want),
      a3 \in ProviderAnswers(keys, "pixabay", want),
      a4 \in ProviderAnswers(keys, "pexels", want),
      a5 \in ProviderAnswers(keys, "google", want) }

\* mock_data_raw of _get_mock_recommendations.
StaticMock ==
  << [ id |-> "artwork_001", image_url |-> "mock_1", score |-> 95, style |-> "Modern" ],
     [ id |-> "artwork_002", image_url |-> "static_2", score |-> 92, style |-> "Contemporary" ],
     [ id |-> "artwork_003", image_url |-> "static_3", score |-> 88, style |-> "Abstract" ] >>

NoTask == [ st |-> "none", enriched |-> FALSE, image_url |-> None, reasoning |-> NoText ]

NoRequest ==
  [ endpoint |-> None, limit |-> 0, style_vector |-> "empty", qdist |-> <<>>,
    style |-> None ]

NoResponse ==
  [ status |-> 0, recommendations |-> <<>>, total_matches |-> 0, trends |-> <<>> ]

\* raise HTTPException(status_code=500, ...).
Http500 ==
  [ status |-> 500, recommendations |-> <<>>, total_matches |-> 0, trends |-> <<>> ]

OkResponse(recs, total, tr) ==
  [ status |-> 200, recommendations |-> recs, total_matches |-> total, trends |-> tr ]

\* No lookups are in progress.
NoTime == -1

LoopIdle ==
  /\ now = 0
  /\ lookups = <<>>
  /\ lpc = "idle"
  /\ lookup_end = NoTime
  /\ answered = FALSE

\* A float array: the direction it points to (0: the zero vector) and
\* whether its L2 norm is 1.
ArrayValue(dir, unit) == [ dir |-> dir, unit |-> unit ]

\* filters of search_by_style: None, or a dict with the keys `keys`.
Filters(none, keys, lo, hi, style) ==
  [ none |-> none, keys |-> keys, price_range |-> << lo, hi >>, style |-> style ]

NoFilters == Filters(TRUE, {}, 0, 0, None)

NoCall ==
  [ op |-> "none", query |-> [ value |-> ArrayValue(0, FALSE), ndim |-> 1 ],
    k |-> 0, filters |-> NoFilters, result |-> <<>> ]

NoAgain == [ done |-> FALSE, result |-> <<>> ]

\* No FAISS call is being followed.
FaissIdle ==
  /\ fvectors = <<>>
  /\ fquery = ArrayValue(0, FALSE)
  /\ fout = NoCall
  /\ fagain = NoAgain

NoKeyCall == [ base |-> <<>>, urls |-> <<>>, keys |-> <<>> ]

\* No call of extract_photo_id is being followed.
KeyIdle == key_call = NoKeyCall

NoCatalogCall == [ style |-> None, limit |-> 0, result |-> <<>> ]

\* No call of get_local_catalog_recommendations is being followed.
CatalogIdle == cat_call = NoCatalogCall

\* No search query has been built.
QueryIdle == search_queries = <<>>

\* No request body has been received yet.
BodyIdle == body = NoRequest

\* No search_artwork call is being followed.
SearchIdle ==
  /\ slimit = 0
  /\ spc = "idle"
  /\ spos = 0
  /\ sresults = <<>>
  /\ scalls = <<>>
  /\ sret = <<>>

\* No enrich-reasoning request is being served.
EnrichIdle ==
  /\ artworks = <<>>
  /\ enrich_tasks = <<>>
  /\ epc = "idle"
  /\ enrich_response = [ status |-> 0, enriched_count |-> 0, reasoning_list |-> <<>> ]

HandlerIdle ==
  /\ request = NoRequest
  /\ pc = "idle"
  /\ trends = <<>>
  /\ candidates = <<>>
  /\ tasks = <<>>
  /\ recommendations = <<>>
  /\ local_recs = <<>>
  /\ work = <<>>
  /\ response = NoResponse

\* Arguments generate_reasoning is called with in this model.
ArtworkStyles == { "Abstract", "Modern" }
RoomStyles == { None, "modern" }
SampleScores == { Frac(85, 1), Frac(185, 2), Frac(1000, 11) }

ChatInit ==
  /\ environ \in SUBSET ChatEnvVars
  /\ chat_agent = ChatAgentInit(environ)
  /\ cpc = "idle"
  /\ cargs = NoArgs
  /\ cattempted = None
  /\ cret = NoText
  /\ store_agent = {}
  /\ LOCAL_CATALOG = <<>>
  /\ index_file = IndexFile("absent", 0, <<>>)
  /\ faiss_client = NoClient
  /\ HandlerIdle
  /\ LoopIdle
  /\ EnrichIdle
  /\ KeyIdle
  /\ CatalogIdle
  /\ QueryIdle
  /\ FaissIdle
  /\ BodyIdle
  /\ SearchIdle

\* generate_reasoning is called and runs to its first await or its return.
GenerateReasoning ==
  /\ cpc = "idle"
  /\ \E st \in ArtworkStyles, rs \in RoomStyles, sc \in SampleScores :
       /\ cargs' = [style |-> st, room |-> rs, score |-> sc]
       /\ IF ReasoningRoute(chat_agent) = "template"
            THEN /\ cpc' = "returned"
                 /\ cattempted' = None
                 /\ cret' = ReasoningTemplate(st, rs, sc)
            ELSE /\ cpc' = "request"
                 /\ cattempted' = chat_agent.provider
                 /\ cret' = NoText
  /\ UNCHANGED <<environ, chat_agent, configVars, keyVars, catalogVars, queryVars, faissVars, wireVars, searchVars, handlerVars, loopVars, enrichVars>>

\* The provider request returns text.
ReasoningRequestReturns ==
  /\ cpc = "request"
  /\ cpc' = "returned"
  /\ cret' = LlmText
  /\ UNCHANGED <<environ, chat_agent, cargs, cattempted, configVars, keyVars, catalogVars, queryVars, faissVars, wireVars, searchVars, handlerVars, loopVars, enrichVars>>

\* The provider request raises: the except branch returns the template.
ReasoningRequestRaises ==
  /\ cpc = "request"
  /\ cpc' = "returned"
  /\ cret' = ReasoningTemplate(cargs.style, cargs.room, cargs.score)
  /\ UNCHANGED <<environ, chat_agent, cargs, cattempted, configVars, keyVars, catalogVars, queryVars, faissVars, wireVars, searchVars, handlerVars, loopVars, enrichVars>>

\* The caller takes the value; the agent is ready for the next call.
ReasoningDone ==
  /\ cpc = "returned"
  /\ cpc' = "idle"
  /\ cargs' = NoArgs
  /\ cattempted' = None
  /\ cret' = NoText
  /\ UNCHANGED <<environ, chat_agent, configVars, keyVars, catalogVars, queryVars, faissVars, wireVars, searchVars, handlerVars, loopVars, enrichVars>>

ChatNext ==
  \/ GenerateReasoning
  \/ ReasoningRequestReturns
  \/ ReasoningRequestRaises
  \/ ReasoningDone


SpecChat == ChatInit /\ [][ChatNext]_vars

(***************************************************************************)
(* get_recommendations and get_fast_recommendations as a state machine.    *)
(***************************************************************************)

\* ---- the configurations and inputs of the model ----
CAT_ITEM_1 == CatalogItem("catalog_001", "cat_1", "abstract_art", { "modern" })
CAT_ITEM_2 == CatalogItem("catalog_002", "cat_2", "minimalist_poster",
                          { "modern", "abstract" })
CAT_ITEM_3 == CatalogItem("catalog_003", "cat_3", "ocean_waves", {})

Catalogs == { <<>>, << CAT_ITEM_3, CAT_ITEM_1, CAT_ITEM_2 >> }

\* Index files: none; one faiss.read_index cannot read; one written by
\* scripts/seed_artworks.py (metadata with image_url); one written by
\* scripts/init_faiss.py (metadata without image_url).
IndexFiles ==
  { IndexFile("absent", 0, <<>>),
    IndexFile("corrupt", 0, <<>>),
    IndexFile("good", 2, << Meta("a1", "faiss_a", "Abstract"),
                            Meta("b2", "faiss_b", "Minimalist") >>),
    IndexFile("good", 2, << Meta("test_1", Absent, "Modern"),
                            Meta("test_2", Absent, "Abstract") >>) }

\* Credentials the store agent may hold.
KeyConfigs == { {}, { "unsplash" }, { "tavily", "pixabay" } }

\* Environments of the chat agent.
PipelineEnvs == { {}, { "GROQ_API_KEY" } }

\* What trend_agent.get_trending_styles may return: the "style" of each trend.
TrendLists == { << "Japandi", "Biophilic" >> }

RequestStyles == { None, "Rustic" }

Requests ==
  { [ endpoint |-> e, limit |-> l, style_vector |-> "empty", qdist |-> <<>>,
      style |-> st ] :
      e \in { "full", "fast" }, l \in 1..MaxLimit, st \in RequestStyles }
  \cup
  { [ endpoint |-> e, limit |-> l, style_vector |-> "given", qdist |-> q,
      style |-> st ] :
      e \in { "full", "fast" }, l \in 1..MaxLimit, st \in RequestStyles,
      q \in [ 1..index_file.ntotal -> 0..MaxDist ] }

Init ==
  /\ environ \in PipelineEnvs
  /\ chat_agent = ChatAgentInit(environ)
  /\ cpc = "idle"
  /\ cargs = NoArgs
  /\ cattempted = None
  /\ cret = NoText
  /\ store_agent \in KeyConfigs
  /\ LOCAL_CATALOG \in Catalogs
  /\ index_file \in IndexFiles
  /\ faiss_client = NoClient
  /\ HandlerIdle
  /\ LoopIdle
  /\ EnrichIdle
  /\ KeyIdle
  /\ CatalogIdle
  /\ QueryIdle
  /\ FaissIdle
  /\ BodyIdle
  /\ SearchIdle

\* A request arrives.
StartRequest ==
  /\ pc = "idle"
  /\ \E req \in Requests :
       /\ request' = req
       /\ pc' = IF req.endpoint = "full" THEN "trends" ELSE "fast_start"
  /\ UNCHANGED <<chatVars, configVars, keyVars, catalogVars, queryVars, faissVars, wireVars, searchVars, loopVars, enrichVars, faiss_client, trends, candidates, tasks,
                 recommendations, local_recs, work, response>>

\* ---- get_recommendations ----

\* trends = await trend_agent.get_trending_styles(...) returns.
TrendsReturn ==
  /\ pc = "trends"
  /\ trends' \in TrendLists
  /\ pc' = "faiss"
  /\ UNCHANGED <<chatVars, configVars, keyVars, catalogVars, queryVars, faissVars, wireVars, searchVars, loopVars, enrichVars, faiss_client, request, candidates, tasks,
                 recommendations, local_recs, work, response>>

\* get_trending_styles raises (no client, API error): trends = [].
TrendsRaise ==
  /\ pc = "trends"
  /\ trends' = <<>>
  /\ pc' = "faiss"
  /\ UNCHANGED <<chatVars, configVars, keyVars, catalogVars, queryVars, faissVars, wireVars, searchVars, loopVars, enrichVars, faiss_client, request, candidates, tasks,
                 recommendations, local_recs, work, response>>

\* get_faiss_client(), the FAISS search and the creation of one task per
\* candidate.  get_faiss_client sits in the outer try only: what it raises
\* becomes HTTPException(500).
FaissStep ==
  /\ pc = "faiss"
  /\ LET got == get_faiss_client(faiss_client, index_file)
     IN  IF got.raised
           THEN /\ response' = Http500
                /\ pc' = "done"
                /\ UNCHANGED <<faiss_client, candidates, tasks>>
           ELSE LET found == IF request.style_vector = "given"
                               THEN FaissSearch(got.client, request.qdist,
                                                request.limit)
                               ELSE <<>>
                IN  /\ faiss_client' = got.client
                    /\ candidates' = found
                    /\ tasks' = [ i \in 1..Len(found) |->
                                    [ NoTask EXCEPT !.st = "fetching" ] ]
                    /\ pc' = IF found = <<>> THEN "mock_search" ELSE "gather"
                    /\ UNCHANGED response
  /\ UNCHANGED <<chatVars, configVars, keyVars, catalogVars, queryVars, faissVars, wireVars, searchVars, loopVars, enrichVars, request, trends, recommendations,
                 local_recs, work>>

\* Task i: the store lookup returns within its timeout.
StoreLookupReturns(i) ==
  /\ pc = "gather"
  /\ tasks[i].st = "fetching"
  /\ \E resp \in Responses(store_agent, EnrichLimit) :
       LET store_results == search_artwork(store_agent, resp, EnrichLimit)
       IN  tasks' =
             [ tasks EXCEPT ![i] =
                 IF store_results # <<>>
                   THEN [ @ EXCEPT !.st = "reasoning", !.enriched = TRUE,
                                   !.image_url = store_results[1].image_url ]
                   ELSE [ @ EXCEPT !.st = "reasoning",
                                   !.image_url = MetaImage(candidates[i].meta) ] ]
  /\ UNCHANGED <<chatVars, configVars, keyVars, catalogVars, queryVars, faissVars, wireVars, searchVars, loopVars, enrichVars, faiss_client, request, pc, trends,
                 candidates, recommendations, local_recs, work, response>>

\* Task i: asyncio.wait_for raises TimeoutError (some provider is awaited
\* only when the agent holds a credential); the FAISS metadata stays.
StoreLookupTimesOut(i) ==
  /\ pc = "gather"
  /\ tasks[i].st = "fetching"
  /\ store_agent # {}
  /\ tasks' = [ tasks EXCEPT ![i] =
                  [ @ EXCEPT !.st = "reasoning",
                             !.image_url = MetaImage(candidates[i].meta) ] ]
  /\ UNCHANGED <<chatVars, configVars, keyVars, catalogVars, queryVars, faissVars, wireVars, searchVars, loopVars, enrichVars, faiss_client, request, pc, trends,
                 candidates, recommendations, local_recs, work, response>>

\* Task i: await chat_agent.generate_reasoning(...), then the construction
\* of the ArtworkRecommendation, whose validation error ends the task.
TaskReasoning(i) ==
  /\ pc = "gather"
  /\ tasks[i].st = "reasoning"
  /\ \E out \in ReasoningOutcomes(chat_agent) :
       tasks' =
         [ tasks EXCEPT ![i] =
             IF out = "hang" THEN [ @ EXCEPT !.st = "hung" ]
             ELSE [ @ EXCEPT
                      !.reasoning =
                         ReasoningValue(out, candidates[i].meta.style,
                                        request.style,
                                        MatchScore(candidates[i].dist)),
                      !.st = IF Validates(tasks[i].image_url) THEN "done"
                             ELSE "raised" ] ]
  /\ UNCHANGED <<chatVars, configVars, keyVars, catalogVars, queryVars, faissVars, wireVars, searchVars, loopVars, enrichVars, faiss_client, request, pc, trends,
                 candidates, recommendations, local_recs, work, response>>

\* The recommendation a finished task returned.
TaskResult(i) ==
  Rec(candidates[i].meta.id, tasks[i].image_url,
      MatchScore(candidates[i].dist), "faiss", tasks[i].enriched,
      tasks[i].reasoning)

\* A join that goes on as soon as one task has finished (asyncio.wait with
\* FIRST_COMPLETED) and takes the tasks finished by then.
GatherFirstCompleted ==
  /\ pc = "gather"
  /\ \E i \in 1..Len(tasks) : tasks[i].st \in { "done", "raised" }
  /\ LET kept == SelectSeq([ i \in 1..Len(tasks) |-> i ],
                           LAMBDA i : tasks[i].st = "done")
         recs == [ r \in 1..Len(kept) |-> TaskResult(kept[r]) ]
     IN  /\ recommendations' = recs
         /\ pc' = IF recs = <<>> THEN "mock_search" ELSE "local"
  /\ UNCHANGED <<chatVars, configVars, keyVars, catalogVars, queryVars, faissVars, wireVars, searchVars, loopVars, enrichVars, faiss_client, request, trends,
                 candidates, tasks, local_recs, work, response>>

\* asyncio.gather(*tasks, return_exceptions=True) returns, and the filter
\* keeps the ArtworkRecommendation instances.
GatherDone ==
  /\ pc = "gather"
  /\ \A i \in 1..Len(tasks) : tasks[i].st \in { "done", "raised" }
  /\ LET kept == SelectSeq([ i \in 1..Len(tasks) |-> i ],
                           LAMBDA i : tasks[i].st = "done")
         recs == [ r \in 1..Len(kept) |-> TaskResult(kept[r]) ]
     IN  /\ recommendations' = recs
         /\ pc' = IF recs = <<>> THEN "mock_search" ELSE "local"
  /\ UNCHANGED <<chatVars, configVars, keyVars, catalogVars, queryVars, faissVars, wireVars, searchVars, loopVars, enrichVars, faiss_client, request, trends,
                 candidates, tasks, local_recs, work, response>>

\* _get_mock_recommendations: await store_agent.search_artwork(limit=limit),
\* with no timeout of its own.
MockSearchReturns ==
  /\ pc = "mock_search"
  /\ \E resp \in Responses(store_agent, request.limit) :
       work' = search_artwork(store_agent, resp, request.limit)
  /\ recommendations' = <<>>
  /\ pc' = "mock_reason"
  /\ UNCHANGED <<chatVars, configVars, keyVars, catalogVars, queryVars, faissVars, wireVars, searchVars, loopVars, enrichVars, faiss_client, request, trends,
                 candidates, tasks, local_recs, response>>

\* _get_mock_recommendations, one turn of the loop over store_results: the
\* reasoning call, then the ArtworkRecommendation.  A validation error
\* leads to the except branch, which starts over with mock_data_raw[:limit].
MockReasonItem ==
  /\ pc = "mock_reason"
  /\ work # <<>>
  /\ \E out \in ReasoningOutcomes(chat_agent) :
       LET item == Head(work)
           idx == Len(recommendations)
           score == Frac(95 - idx * 3, 1)
       IN  IF out = "hang"
             THEN /\ pc' = "hung"
                  /\ UNCHANGED <<work, recommendations>>
             ELSE IF ~ Validates(item.image_url)
               THEN /\ pc' = "static_reason"
                    /\ work' = Take(StaticMock, request.limit)
                    /\ recommendations' = <<>>
               ELSE /\ pc' = IF Tail(work) = <<>> THEN "local" ELSE "mock_reason"
                    /\ work' = Tail(work)
                    /\ recommendations' =
                         Append(recommendations,
                                Rec(item.id, item.image_url, score, "store", TRUE,
                                    ReasoningValue(out, RoomStyle(request),
                                                   RoomStyle(request), score)))
  /\ UNCHANGED <<chatVars, configVars, keyVars, catalogVars, queryVars, faissVars, wireVars, searchVars, loopVars, enrichVars, faiss_client, request, trends,
                 candidates, tasks, local_recs, response>>

\* _get_mock_recommendations, one turn of the loop over mock_data_raw[:limit].
StaticReasonItem ==
  /\ pc = "static_reason"
  /\ work # <<>>
  /\ \E out \in ReasoningOutcomes(chat_agent) :
       LET item == Head(work)
           score == Frac(item.score, 1)
       IN  IF out = "hang"
             THEN /\ pc' = "hung"
                  /\ UNCHANGED <<work, recommendations>>
             ELSE /\ pc' = IF Tail(work) = <<>> THEN "local" ELSE "static_reason"
                  /\ work' = Tail(work)
                  /\ recommendations' =
                       Append(recommendations,
                              Rec(item.id, item.image_url, score, "static", FALSE,
                                  ReasoningValue(out, item.style,
                                                 RoomStyle(request), score)))
  /\ UNCHANGED <<chatVars, configVars, keyVars, catalogVars, queryVars, faissVars, wireVars, searchVars, loopVars, enrichVars, faiss_client, request, trends,
                 candidates, tasks, local_recs, response>>

\* local_items = get_local_catalog_recommendations(room_style, limit=2).
LocalCatalogStep ==
  /\ pc = "local"
  /\ work' \in get_local_catalog_recommendations(LOCAL_CATALOG,
                                                 RoomStyle(request), LocalQuota)
  /\ local_recs' = <<>>
  /\ pc' = "local_reason"
  /\ UNCHANGED <<chatVars, configVars, keyVars, catalogVars, queryVars, faissVars, wireVars, searchVars, loopVars, enrichVars, faiss_client, request, trends,
                 candidates, tasks, recommendations, response>>

\* One turn of the loop over local_items.
LocalReasonItem ==
  /\ pc = "local_reason"
  /\ work # <<>>
  /\ \E out \in ReasoningOutcomes(chat_agent) :
       LET item == Head(work)
           score == Frac(FullLocalScore, 1)
       IN  IF out = "hang"
             THEN /\ pc' = "hung"
                  /\ UNCHANGED <<work, local_recs>>
             ELSE /\ pc' = "local_reason"
                  /\ work' = Tail(work)
                  /\ local_recs' =
                       Append(local_recs,
                              Rec(item.id, item.image_url, score, "catalog", FALSE,
                                  ReasoningValue(out, CategoryTitle(item.category),
                                                 RoomStyle(request), score)))
  /\ UNCHANGED <<chatVars, configVars, keyVars, catalogVars, queryVars, faissVars, wireVars, searchVars, loopVars, enrichVars, faiss_client, request, trends,
                 candidates, tasks, recommendations, response>>

\* A combination that keeps every recommendation of the join or of the
\* store fallback: local_catalog_recommendations + recommendations.
FullRespondKeepAll ==
  /\ pc = "local_reason"
  /\ work = <<>>
  /\ LET final == local_recs \o recommendations
     IN  /\ recommendations' = final
         /\ response' = OkResponse(final, Len(final), Take(trends, MaxTrends))
  /\ pc' = "done"
  /\ UNCHANGED <<chatVars, configVars, keyVars, catalogVars, queryVars, faissVars, wireVars, searchVars, loopVars, enrichVars, faiss_client, request, trends,
                 candidates, tasks, local_recs, work>>

\* recommendations = local_catalog_recommendations + recommendations[:1],
\* and the RecommendationResponse.
FullRespond ==
  /\ pc = "local_reason"
  /\ work = <<>>
  /\ LET final == local_recs \o Take(recommendations, KeepOnline)
     IN  /\ recommendations' = final
         /\ response' = OkResponse(final, Len(final), Take(trends, MaxTrends))
  /\ pc' = "done"
  /\ UNCHANGED <<chatVars, configVars, keyVars, catalogVars, queryVars, faissVars, wireVars, searchVars, loopVars, enrichVars, faiss_client, request, trends,
                 candidates, tasks, local_recs, work>>

\* ---- get_fast_recommendations ----

\* The template sentence of the fast endpoint for a FAISS candidate.
FastTemplate(style, score) ==
  [ kind |-> "fast_template", style |-> style, room |-> None,
    score |-> RoundHalfEven(score) ]

\* The sentence of the fast endpoint for a catalog item.
FastLocalText(category, room_style) ==
  [ kind |-> "fast_local", style |-> category, room |-> room_style,
    score |-> FastLocalScore ]

\* reasoning = "".
EmptyText == [ kind |-> "empty", style |-> None, room |-> None, score |-> 0 ]

FastFaissRec(c) ==
  Rec(c.meta.id, MetaImage(c.meta), MatchScore(c.dist), "faiss", FALSE,
      FastTemplate(c.meta.style, MatchScore(c.dist)))

FastLocalRec(item, room_style) ==
  Rec(item.id, item.image_url, Frac(FastLocalScore, 1), "catalog", FALSE,
      FastLocalText(item.category, room_style))

\* The loop over online_results: skip items without an image or with the
\* placeholder image, skip items whose photo id was seen, stop after
\* FastOnlineMax additions.
RECURSIVE FastOnlineLoop(_, _, _, _)
FastOnlineLoop(items, seen, recs, added) ==
  IF items = <<>> THEN recs
  ELSE LET item == Head(items)
           image_url == item.image_url
           photo_id == PhotoKey[image_url]
       IN  IF image_url = None \/ image_url = "placeholder"
             THEN FastOnlineLoop(Tail(items), seen, recs, added)
           ELSE IF photo_id \in seen
             THEN FastOnlineLoop(Tail(items), seen, recs, added)
           ELSE LET recs2 == Append(recs, Rec(item.id, image_url,
                                              Frac(FastOnlineScore, 1), "store",
                                              TRUE, EmptyText))
                IN  IF added + 1 >= FastOnlineMax THEN recs2
                    ELSE FastOnlineLoop(Tail(items), seen \cup { photo_id },
                                        recs2, added + 1)

\* recommendations.sort(key=lambda x: x.match_score, reverse=True).
SortByScore(recs) ==
  StableSort(recs, [ a, b \in 1..Len(recs) |->
                     FracLt(recs[b].match_score, recs[a].match_score) ])

FastResponse(recs) ==
  LET sorted == SortByScore(recs)
  IN  OkResponse(Take(sorted, request.limit), Len(sorted), <<>>)

\* The fast endpoint up to its await: get_faiss_client (in the outer try),
\* the FAISS recommendations, the catalog items.
FastStart ==
  /\ pc = "fast_start"
  /\ LET got == get_faiss_client(faiss_client, index_file)
     IN  IF got.raised
           THEN /\ response' = Http500
                /\ pc' = "done"
                /\ UNCHANGED <<faiss_client, candidates, recommendations,
                               local_recs>>
           ELSE LET found == IF request.style_vector = "given"
                               THEN FaissSearch(got.client, request.qdist,
                                                request.limit)
                               ELSE <<>>
                    faiss_recs == [ r \in 1..Len(found) |-> FastFaissRec(found[r]) ]
                IN  \E local_items \in
                        get_local_catalog_recommendations(
                          LOCAL_CATALOG, RoomStyle(request), LocalQuota) :
                      LET locals == [ r \in 1..Len(local_items) |->
                                        FastLocalRec(local_items[r],
                                                     RoomStyle(request)) ]
                      IN  /\ faiss_client' = got.client
                          /\ candidates' = found
                          /\ local_recs' = locals
                          /\ recommendations' = faiss_recs \o locals
                          /\ pc' = "fast_online"
                          /\ UNCHANGED response
  /\ UNCHANGED <<chatVars, configVars, keyVars, catalogVars, queryVars, faissVars, wireVars, searchVars, loopVars, enrichVars, request, trends, tasks, work>>

\* seen_photo_ids after the catalog items.
SeenAfterLocal == { PhotoKey[local_recs[r].image_url] : r \in 1..Len(local_recs) }

\* The online search returns within its timeout.
FastOnlineReturns ==
  /\ pc = "fast_online"
  /\ \E resp \in Responses(store_agent, FastOnlineLimit) :
       LET online_results == search_artwork(store_agent, resp, FastOnlineLimit)
           all == FastOnlineLoop(online_results, SeenAfterLocal,
                                 recommendations, 0)
       IN  /\ work' = online_results
           /\ recommendations' = SortByScore(all)
           /\ response' = FastResponse(all)
  /\ pc' = "done"
  /\ UNCHANGED <<chatVars, configVars, keyVars, catalogVars, queryVars, faissVars, wireVars, searchVars, loopVars, enrichVars, faiss_client, request, trends,
                 candidates, tasks, local_recs>>

\* The online search exceeds its timeout: nothing is added.
FastOnlineTimesOut ==
  /\ pc = "fast_online"
  /\ store_agent # {}
  /\ recommendations' = SortByScore(recommendations)
  /\ response' = FastResponse(recommendations)
  /\ pc' = "done"
  /\ UNCHANGED <<chatVars, configVars, keyVars, catalogVars, queryVars, faissVars, wireVars, searchVars, loopVars, enrichVars, faiss_client, request, trends,
                 candidates, tasks, local_recs, work>>

\* The response is sent; the worker is ready for the next request.  The
\* FAISS singleton lives on.
HandlerReturn ==
  /\ pc = "done"
  /\ request' = NoRequest
  /\ pc' = "idle"
  /\ trends' = <<>>
  /\ candidates' = <<>>
  /\ tasks' = <<>>
  /\ recommendations' = <<>>
  /\ local_recs' = <<>>
  /\ work' = <<>>
  /\ response' = NoResponse
  /\ UNCHANGED <<chatVars, configVars, keyVars, catalogVars, queryVars, faissVars, wireVars, searchVars, loopVars, enrichVars, faiss_client>>

Next ==
  \/ StartRequest
  \/ TrendsReturn
  \/ TrendsRaise
  \/ FaissStep
  \/ \E i \in 1..Len(tasks) : StoreLookupReturns(i)
  \/ \E i \in 1..Len(tasks) : StoreLookupTimesOut(i)
  \/ \E i \in 1..Len(tasks) : TaskReasoning(i)
  \/ GatherDone
  \/ MockSearchReturns
  \/ MockReasonItem
  \/ StaticReasonItem
  \/ LocalCatalogStep
  \/ LocalReasonItem
  \/ FullRespond
  \/ FastStart
  \/ FastOnlineReturns
  \/ FastOnlineTimesOut
  \/ HandlerReturn

Spec == Init /\ [][Next]_vars


(***************************************************************************)
(* The store lookups on the asyncio event loop, with time.                 *)
(*                                                                         *)
(* A request with n >= 1 FAISS candidates gathers n tasks, each awaiting   *)
(* wait_for(search_artwork(limit=1), 3.0); a request with no candidate     *)
(* awaits search_artwork(limit=limit) directly in _get_mock_recommendations.*)
(* search_artwork awaits its providers one after the other.  The HTTP      *)
(* providers await httpx (timeout 5.0); _search_tavily_products calls the  *)
(* synchronous TavilyClient.search, which returns control to the loop only *)
(* when it is over.                                                        *)
(***************************************************************************)

\* ---- bounds ----
MaxTime == 6    \* the clock stops at MaxTime seconds
MaxTasks == 2   \* FAISS candidates of a request of this model

\* ---- program constants ----
StoreTimeout == 3   \* asyncio.wait_for(..., timeout=3.0)
HttpTimeout == 5    \* httpx.AsyncClient(timeout=5.0)

\* The providers whose _search_* blocks the event loop while it runs.
SyncProviders == { "tavily" }

\* A search_artwork call: st is "ready" (runnable), "awaiting" (an HTTP
\* request is pending), "blocking" (inside a synchronous call), "returned"
\* or "timed_out"; at is the chain position of the current provider; started
\* is when the call began; since is when the current provider was called;
\* timed tells whether wait_for guards the call; missing is the number of
\* results still wanted; blocked tells whether it has made a synchronous call.
Lookup(timed, missing) ==
  [ st |-> "ready", at |-> 0, started |-> NoTime, since |-> NoTime,
    timed |-> timed, missing |-> missing, blocked |-> FALSE ]

\* The chain position of the next provider with a credential after
\* position at, or 0.
NextProvider(keys, at) ==
  LET later == { j \in (at + 1)..Len(ProviderChain) : ProviderChain[j] \in keys }
  IN  IF later = {} THEN 0 ELSE CHOOSE j \in later : \A k \in later : j <= k

Unfinished(l) == l.st \in { "ready", "awaiting", "blocking" }

\* No coroutine is inside a synchronous call: the loop can run callbacks.
LoopFree == \A i \in 1..Len(lookups) : lookups[i].st # "blocking"

\* The wait_for timer of lookup i has expired.
WaitForDue(i) ==
  /\ lookups[i].timed
  /\ lookups[i].st \in { "ready", "awaiting" }
  /\ lookups[i].started # NoTime
  /\ now >= lookups[i].started + StoreTimeout

\* The httpx timeout of the pending request of lookup i has expired.
HttpDue(i) ==
  /\ lookups[i].st = "awaiting"
  /\ now >= lookups[i].since + HttpTimeout

LoopInit ==
  /\ environ = {}
  /\ chat_agent = ChatAgentInit(environ)
  /\ cpc = "idle"
  /\ cargs = NoArgs
  /\ cattempted = None
  /\ cret = NoText
  /\ store_agent \in SUBSET Providers
  /\ LOCAL_CATALOG = <<>>
  /\ index_file = IndexFile("absent", 0, <<>>)
  /\ faiss_client = NoClient
  /\ HandlerIdle
  /\ LoopIdle
  /\ EnrichIdle
  /\ KeyIdle
  /\ CatalogIdle
  /\ QueryIdle
  /\ FaissIdle
  /\ BodyIdle
  /\ SearchIdle

\* The lookups of a request begin: the tasks of the gather when the FAISS
\* search gave n >= 1 candidates (n <= limit), the direct call of
\* _get_mock_recommendations when it gave none.
LookupsStart ==
  /\ lpc = "idle"
  /\ \E limit \in 1..MaxLimit :
       \E n \in 0..Min(limit, MaxTasks) :
         lookups' = IF n = 0 THEN << Lookup(FALSE, limit) >>
                    ELSE [ i \in 1..n |-> Lookup(TRUE, EnrichLimit) ]
  /\ lpc' = "lookups"
  /\ UNCHANGED <<chatVars, configVars, keyVars, catalogVars, queryVars, faissVars, wireVars, searchVars, handlerVars, enrichVars, now, lookup_end, answered>>

\* The loop runs lookup i up to its next suspension: search_artwork moves on
\* to the next provider with a credential, or returns.  Tasks run for the
\* first time in the order of their creation.
RunLookup(i) ==
  /\ lpc = "lookups"
  /\ LoopFree
  /\ lookups[i].st = "ready"
  /\ \A j \in 1..(i - 1) : lookups[j].started # NoTime
  /\ LET l == lookups[i]
         j == NextProvider(store_agent, l.at)
         began == IF l.started = NoTime THEN now ELSE l.started
     IN  lookups' =
           [ lookups EXCEPT ![i] =
               IF j = 0 \/ l.missing = 0
                 THEN [ l EXCEPT !.st = "returned", !.started = began ]
               ELSE IF ProviderChain[j] \in SyncProviders
                 THEN [ l EXCEPT !.st = "blocking", !.at = j, !.since = now,
                                 !.started = began, !.blocked = TRUE ]
               ELSE [ l EXCEPT !.st = "awaiting", !.at = j, !.since = now,
                               !.started = began ] ]
  /\ UNCHANGED <<chatVars, configVars, keyVars, catalogVars, queryVars, faissVars, wireVars, searchVars, handlerVars, enrichVars, now, lpc, lookup_end, answered>>

\* The pending HTTP request of lookup i is answered with k results.
ProviderAnswersItems(i) ==
  /\ lpc = "lookups"
  /\ LoopFree
  /\ lookups[i].st = "awaiting"
  /\ \E k \in 1..lookups[i].missing :
       lookups' = [ lookups EXCEPT ![i] =
                      [ @ EXCEPT !.st = "ready", !.missing = @ - k ] ]
  /\ answered' = TRUE
  /\ UNCHANGED <<chatVars, configVars, keyVars, catalogVars, queryVars, faissVars, wireVars, searchVars, handlerVars, enrichVars, now, lpc, lookup_end>>

\* The pending HTTP request of lookup i is answered with an error or with
\* no result.
ProviderAnswersNothing(i) ==
  /\ lpc = "lookups"
  /\ LoopFree
  /\ lookups[i].st = "awaiting"
  /\ lookups' = [ lookups EXCEPT ![i] = [ @ EXCEPT !.st = "ready" ] ]
  /\ answered' = TRUE
  /\ UNCHANGED <<chatVars, configVars, keyVars, catalogVars, queryVars, faissVars, wireVars, searchVars, handlerVars, enrichVars, now, lpc, lookup_end>>

\* httpx gives up on the pending request of lookup i; _search_* catches the
\* exception and search_artwork goes on.
HttpTimesOut(i) ==
  /\ lpc = "lookups"
  /\ LoopFree
  /\ HttpDue(i)
  /\ lookups' = [ lookups EXCEPT ![i] = [ @ EXCEPT !.st = "ready" ] ]
  /\ UNCHANGED <<chatVars, configVars, keyVars, catalogVars, queryVars, faissVars, wireVars, searchVars, handlerVars, enrichVars, now, lpc, lookup_end, answered>>

\* The wait_for timer of lookup i fires: the lookup is cancelled.
WaitForTimesOut(i) ==
  /\ lpc = "lookups"
  /\ LoopFree
  /\ WaitForDue(i)
  /\ lookups' = [ lookups EXCEPT ![i] = [ @ EXCEPT !.st = "timed_out" ] ]
  /\ UNCHANGED <<chatVars, configVars, keyVars, catalogVars, queryVars, faissVars, wireVars, searchVars, handlerVars, enrichVars, now, lpc, lookup_end, answered>>

\* The synchronous call of lookup i returns, with k results or with none.
SyncCallReturns(i) ==
  /\ lpc = "lookups"
  /\ lookups[i].st = "blocking"
  /\ \E k \in 0..lookups[i].missing :
       lookups' = [ lookups EXCEPT ![i] =
                      [ @ EXCEPT !.st = "ready", !.missing = @ - k ] ]
  /\ answered' = TRUE
  /\ UNCHANGED <<chatVars, configVars, keyVars, catalogVars, queryVars, faissVars, wireVars, searchVars, handlerVars, enrichVars, now, lpc, lookup_end>>

\* One second passes.  While the loop is free, time passes only when nothing
\* is runnable and no timer is due; inside a synchronous call it passes
\* whatever is due.
Tick ==
  /\ lpc = "lookups"
  /\ now < MaxTime
  /\ \E i \in 1..Len(lookups) : Unfinished(lookups[i])
  /\ \/ ~ LoopFree
     \/ \A i \in 1..Len(lookups) :
          /\ lookups[i].st # "ready"
          /\ ~ WaitForDue(i)
          /\ ~ HttpDue(i)
  /\ now' = now + 1
  /\ UNCHANGED <<chatVars, configVars, keyVars, catalogVars, queryVars, faissVars, wireVars, searchVars, handlerVars, enrichVars, lookups, lpc, lookup_end, answered>>

\* Every lookup is over: the gather (or the direct await) returns.
LookupsDone ==
  /\ lpc = "lookups"
  /\ \A i \in 1..Len(lookups) : ~ Unfinished(lookups[i])
  /\ lookup_end' = now
  /\ lpc' = "finished"
  /\ UNCHANGED <<chatVars, configVars, keyVars, catalogVars, queryVars, faissVars, wireVars, searchVars, handlerVars, enrichVars, now, lookups, answered>>

\* The request goes on without the event loop being observed any further.
LookupsReturn ==
  /\ lpc = "finished"
  /\ now' = 0
  /\ lookups' = <<>>
  /\ lpc' = "idle"
  /\ lookup_end' = NoTime
  /\ answered' = FALSE
  /\ UNCHANGED <<chatVars, configVars, keyVars, catalogVars, queryVars, faissVars, wireVars, searchVars, handlerVars, enrichVars>>

LoopNext ==
  \/ LookupsStart
  \/ \E i \in 1..Len(lookups) : RunLookup(i)
  \/ \E i \in 1..Len(lookups) : ProviderAnswersItems(i)
  \/ \E i \in 1..Len(lookups) : ProviderAnswersNothing(i)
  \/ \E i \in 1..Len(lookups) : HttpTimesOut(i)
  \/ \E i \in 1..Len(lookups) : WaitForTimesOut(i)
  \/ \E i \in 1..Len(lookups) : SyncCallReturns(i)
  \/ Tick
  \/ LookupsDone
  \/ LookupsReturn

SpecLoop == LoopInit /\ [][LoopNext]_vars

\* C6: a slow lookup delays no sibling: a guarded lookup that has made no
\* synchronous call itself is over (returned or cancelled) once its
\* 3-second timeout has passed, whichever provider is slow.
C6_SiblingsNotDelayed ==
  \A i \in 1..Len(lookups) :
    (lookups[i].timed /\ ~ lookups[i].blocked /\ Unfinished(lookups[i]))
      => now <= StoreTimeout

\* C7: when no provider ever answers, the time spent waiting on the store
\* lookups of a request is at most one timeout period, with N candidates as
\* on the path without candidates.
C7_WaitBoundedByOneTimeout ==
  (lpc = "finished" /\ ~ answered) => lookup_end <= StoreTimeout

\* One configuration with every collaborator present, for the liveness property.
FairInit ==
  /\ Init
  /\ environ = { "GROQ_API_KEY" }
  /\ store_agent = { "unsplash" }
  /\ LOCAL_CATALOG # <<>>
  /\ index_file.state = "good"
  /\ index_file.metadata[1].image_url # Absent

\* The steps of get_recommendations the event loop can take once the request
\* is received.
FullNext ==
  \/ TrendsReturn
  \/ TrendsRaise
  \/ FaissStep
  \/ \E i \in 1..Len(tasks) : StoreLookupReturns(i)
  \/ \E i \in 1..Len(tasks) : StoreLookupTimesOut(i)
  \/ \E i \in 1..Len(tasks) : TaskReasoning(i)
  \/ GatherDone
  \/ MockSearchReturns
  \/ MockReasonItem
  \/ StaticReasonItem
  \/ LocalCatalogStep
  \/ LocalReasonItem
  \/ FullRespond

\* A step of get_recommendations that the event loop can take is eventually
\* taken.
FairSpec == FairInit /\ [][Next]_vars /\ WF_vars(FullNext)

(***************************************************************************)
(* Properties of the responses.                                            *)
(***************************************************************************)

\* A handler has returned a RecommendationResponse.
Answered == pc = "done" /\ response.status = 200

\* The visual identity key of a recommendation.
KeyOf(rec) == PhotoKey[rec.image_url]

\* The catalog items relevant to the requested style (keyword score > 0).
RelevantCount ==
  Cardinality({ k \in 1..Len(LOCAL_CATALOG) :
                  KeywordScore(LOCAL_CATALOG[k],
                               StyleKeywords(RoomStyle(request))) > 0 })

CatalogCount(recs) ==
  Cardinality({ r \in 1..Len(recs) : recs[r].origin = "catalog" })

\* C1: in every response of both endpoints no two returned recommendations
\* have the same visual identity key (extract_photo_id of image_url).
C1_NoDuplicateVisualKey ==
  Answered =>
    \A a, b \in 1..Len(response.recommendations) :
      a # b => KeyOf(response.recommendations[a])
                 # KeyOf(response.recommendations[b])

\* C2: when the catalog holds at least 2 items relevant to the requested
\* style, the returned list contains at least min(2, limit) catalog items.
C2_CatalogQuota ==
  (Answered /\ RelevantCount >= 2) =>
    CatalogCount(response.recommendations) >= Min(2, request.limit)

\* C3: the returned list never has more than `limit` entries.
C3_AtMostLimit ==
  Answered => Len(response.recommendations) <= request.limit

\* C4: the returned list is in non-increasing match_score order, and among
\* equal scores a catalog item precedes an item not from the catalog.
C4_RankedCatalogFirst ==
  Answered =>
    \A a, b \in 1..Len(response.recommendations) :
      a < b =>
        LET x == response.recommendations[a]
            y == response.recommendations[b]
        IN  /\ FracLeq(y.match_score, x.match_score)
            /\ (FracEq(x.match_score, y.match_score) /\ y.origin = "catalog")
                 => x.origin = "catalog"

\* C5: the enrichment join of get_recommendations yields exactly one
\* recommendation per FAISS candidate, in candidate order: with the
\* provider's image if the lookup gave a result, with the candidate's own
\* metadata otherwise.
C5_JoinKeepsEveryCandidate ==
  (pc \in { "local", "mock_search" } /\ candidates # <<>>) =>
    /\ Len(recommendations) = Len(candidates)
    /\ \A i \in 1..Len(recommendations) :
         /\ recommendations[i].id = candidates[i].meta.id
         /\ ~ recommendations[i].enriched =>
              recommendations[i].image_url = MetaImage(candidates[i].meta)

\* C8: neither endpoint answers with a 5xx outcome: every answer is a valid
\* response, whatever failed on the way.
C8_NoServerError ==
  pc = "done" => response.status = 200

\* C9: every reasoning call has its own deadline, so a request that was
\* received is answered even when a reasoning call never returns.
C9_RequestCompletes ==
  (pc = "trends") ~> (pc = "done")


\* C10: generate_reasoning never raises; when a reasoning provider is
\* selected it attempts that provider's request, and when no provider is
\* usable or the request fails it returns the deterministic template built
\* from the artwork style, the room style and the match score.
C10_ReasoningAttemptsSelectedProvider ==
  cpc = "returned" =>
    /\ cret # NoText
    /\ chat_agent.provider # None => cattempted = chat_agent.provider
    /\ (chat_agent.provider = None \/ cret.kind = "template") =>
         cret = ReasoningTemplate(cargs.style, cargs.room, cargs.score)

(***************************************************************************)
(* enrich_recommendations_with_reasoning (routes/recommendations.py).      *)
(***************************************************************************)

\* ---- bound ----
MaxArtworks == 2   \* request.artworks holds 1..MaxArtworks dicts

\* artwork.get('match_score', 90.0) when the key is absent.
DefaultEnrichScore == 90

\* A field of an artwork dict: the key is absent, holds JSON null, or holds
\* a value (a style string, a number).
FieldAbsent == [ kind |-> "absent", val |-> None, num |-> Frac(0, 1) ]
FieldNull == [ kind |-> "null", val |-> None, num |-> Frac(0, 1) ]
FieldStr(v) == [ kind |-> "str", val |-> v, num |-> Frac(0, 1) ]
FieldNum(q) == [ kind |-> "num", val |-> None, num |-> q ]

StyleFields == { FieldAbsent, FieldNull, FieldStr("Abstract") }
ScoreFields == { FieldAbsent, FieldNull, FieldNum(Frac(185, 2)) }

\* The dicts request.artworks may hold at position i (list[dict]: no field
\* is validated).
ArtworkInputs(i) ==
  { [ id |-> IF i = 1 THEN "a1" ELSE "b2", style |-> st, match_score |-> sc ] :
      st \in StyleFields, sc \in ScoreFields }

ArtworkLists ==
  UNION { { a \in [ 1..n -> UNION { ArtworkInputs(i) : i \in 1..n } ] :
              \A i \in 1..n : a[i] \in ArtworkInputs(i) } : n \in 1..MaxArtworks }

\* artwork.get('style', default): the default only when the key is absent.
GetStyle(artwork, default) ==
  CASE artwork.style.kind = "absent" -> default
    [] artwork.style.kind = "null"   -> None
    [] artwork.style.kind = "str"    -> artwork.style.val

\* f"{match_score:.0f}" raises unless match_score is a number.
ScoreFormats(artwork) == artwork.match_score.kind \in { "absent", "num" }

\* artwork.get('match_score', 90.0), when it is a number.
GetScore(artwork) ==
  IF artwork.match_score.kind = "absent" THEN Frac(DefaultEnrichScore, 1)
  ELSE artwork.match_score.num

\* The sentence of the except branch of generate_single_reasoning.
EnrichFallbackText(style, room_style) ==
  [ kind |-> "enrich_fallback", style |-> style, room |-> room_style,
    score |-> 0 ]

EnrichRoomStyle == "Modern"

\* What generate_single_reasoning(artwork) comes to when the reasoning call
\* takes outcome out: "hung", "raised" (the exception leaves the task) or an
\* entry.  generate_reasoning formats match_score in its template, outside
\* any try when no api key is set and inside its except branch otherwise; the
\* except branch of generate_single_reasoning calls .lower() on the style.
SingleReasoning(artwork, out) ==
  IF out = "hang" THEN [ st |-> "hung", reasoning |-> NoText ]
  ELSE IF out = "llm" THEN [ st |-> "done", reasoning |-> LlmText ]
  ELSE IF ScoreFormats(artwork)
    THEN [ st |-> "done",
           reasoning |-> ReasoningTemplate(GetStyle(artwork, "Contemporary"),
                                           EnrichRoomStyle, GetScore(artwork)) ]
  ELSE IF GetStyle(artwork, "contemporary") = None
    THEN [ st |-> "raised", reasoning |-> NoText ]
  ELSE [ st |-> "done",
         reasoning |-> EnrichFallbackText(GetStyle(artwork, "contemporary"),
                                          EnrichRoomStyle) ]

EnrichInit ==
  /\ environ \in PipelineEnvs
  /\ chat_agent = ChatAgentInit(environ)
  /\ cpc = "idle"
  /\ cargs = NoArgs
  /\ cattempted = None
  /\ cret = NoText
  /\ store_agent = {}
  /\ LOCAL_CATALOG = <<>>
  /\ index_file = IndexFile("absent", 0, <<>>)
  /\ faiss_client = NoClient
  /\ HandlerIdle
  /\ LoopIdle
  /\ EnrichIdle
  /\ KeyIdle
  /\ CatalogIdle
  /\ QueryIdle
  /\ FaissIdle
  /\ BodyIdle
  /\ SearchIdle

\* A request arrives; one task per artwork is created.
EnrichStart ==
  /\ epc = "idle"
  /\ artworks' \in ArtworkLists
  /\ enrich_tasks' = [ i \in 1..Len(artworks') |->
                         [ st |-> "pending", reasoning |-> NoText ] ]
  /\ epc' = "gather"
  /\ UNCHANGED <<chatVars, configVars, keyVars, catalogVars, queryVars, faissVars, wireVars, searchVars, handlerVars, loopVars, enrich_response>>

\* Task i runs generate_single_reasoning to its end.
EnrichTask(i) ==
  /\ epc = "gather"
  /\ enrich_tasks[i].st = "pending"
  /\ \E out \in ReasoningOutcomes(chat_agent) :
       enrich_tasks' = [ enrich_tasks EXCEPT ![i] = SingleReasoning(artworks[i], out) ]
  /\ UNCHANGED <<chatVars, configVars, keyVars, catalogVars, queryVars, faissVars, wireVars, searchVars, handlerVars, loopVars, artworks, epc,
                 enrich_response>>

\* asyncio.gather(*tasks, return_exceptions=True) returns; the filter keeps
\* the dicts.
EnrichRespond ==
  /\ epc = "gather"
  /\ \A i \in 1..Len(enrich_tasks) : enrich_tasks[i].st \in { "done", "raised" }
  /\ LET kept == SelectSeq([ i \in 1..Len(enrich_tasks) |-> i ],
                           LAMBDA i : enrich_tasks[i].st = "done")
         enriched == [ r \in 1..Len(kept) |->
                         [ artwork_id |-> artworks[kept[r]].id,
                           reasoning |-> enrich_tasks[kept[r]].reasoning ] ]
     IN  enrich_response' = [ status |-> 200, enriched_count |-> Len(enriched),
                              reasoning_list |-> enriched ]
  /\ epc' = "done"
  /\ UNCHANGED <<chatVars, configVars, keyVars, catalogVars, queryVars, faissVars, wireVars, searchVars, handlerVars, loopVars, artworks,
                 enrich_tasks>>

\* The response is sent.
EnrichReturn ==
  /\ epc = "done"
  /\ artworks' = <<>>
  /\ enrich_tasks' = <<>>
  /\ epc' = "idle"
  /\ enrich_response' = [ status |-> 0, enriched_count |-> 0, reasoning_list |-> <<>> ]
  /\ UNCHANGED <<chatVars, configVars, keyVars, catalogVars, queryVars, faissVars, wireVars, searchVars, handlerVars, loopVars>>

EnrichNext ==
  \/ EnrichStart
  \/ \E i \in 1..Len(enrich_tasks) : EnrichTask(i)
  \/ EnrichRespond
  \/ EnrichReturn

SpecEnrich == EnrichInit /\ [][EnrichNext]_vars

\* C11: the response of enrich_recommendations_with_reasoning holds one
\* entry per input artwork, in input order, whatever failed while a
\* reasoning was generated, and enriched_count is the number of entries.
C11_OneEntryPerArtwork ==
  epc = "done" =>
    /\ enrich_response.enriched_count = Len(enrich_response.reasoning_list)
    /\ Len(enrich_response.reasoning_list) = Len(artworks)
    /\ \A i \in 1..Len(enrich_response.reasoning_list) :
         enrich_response.reasoning_list[i].artwork_id = artworks[i].id

(***************************************************************************)
(* StoreInventoryAgent.search_artwork, provider by provider                *)
(* (agents/store_inventory_agent.py).                                      *)
(***************************************************************************)

\* A guard without the credential test: not the guard of the code.
AttemptedWithoutKey(keys, p, results, limit) == Len(results) < limit

\* `if self.<key> and len(results) < limit:` in front of every provider.
SearchAttempted(keys, p, results, limit) ==
  p \in keys /\ Len(results) < limit

\* `except Exception as e: print(...)` around every provider call: the walk
\* goes on with the results it had.
ProviderRaised(results) == [ pc |-> "walk", results |-> results ]

\* What the remote service behind provider p may answer to one request.
SearchAnswers(p) == SeqsUpTo(ProviderItems(p), MaxProviderResults)

\* `if len(results) >= limit: return results[:limit]`, which only the
\* Unsplash and Tavily blocks hold.
ReturnsEarly(pos, results, limit) == pos <= 2 /\ Len(results) >= limit

SearchInit ==
  /\ environ = {}
  /\ chat_agent = ChatAgentInit(environ)
  /\ cpc = "idle"
  /\ cargs = NoArgs
  /\ cattempted = None
  /\ cret = NoText
  /\ store_agent \in SUBSET Providers
  /\ LOCAL_CATALOG = <<>>
  /\ index_file = IndexFile("absent", 0, <<>>)
  /\ faiss_client = NoClient
  /\ HandlerIdle
  /\ LoopIdle
  /\ EnrichIdle
  /\ KeyIdle
  /\ CatalogIdle
  /\ QueryIdle
  /\ FaissIdle
  /\ BodyIdle
  /\ SearchIdle

\* search_artwork(query, style, limit=limit) is called: results = [].
SearchCall ==
  /\ spc = "idle"
  /\ slimit' \in 1..MaxLimit
  /\ spc' = "walk"
  /\ spos' = 1
  /\ sresults' = <<>>
  /\ scalls' = <<>>
  /\ sret' = <<>>
  /\ UNCHANGED <<chatVars, configVars, keyVars, catalogVars, queryVars, faissVars, wireVars, handlerVars, loopVars, enrichVars>>

\* The guard of the provider at spos is false: its block is skipped.
SearchSkip ==
  /\ spc = "walk"
  /\ spos <= Len(ProviderChain)
  /\ ~SearchAttempted(store_agent, ProviderChain[spos], sresults, slimit)
  /\ spos' = spos + 1
  /\ UNCHANGED <<chatVars, configVars, keyVars, catalogVars, queryVars, faissVars, wireVars, handlerVars, loopVars, enrichVars,
                 slimit, spc, sresults, scalls, sret>>

\* The provider at spos is asked and answers: results.extend(answer).
SearchProviderReturns ==
  /\ spc = "walk"
  /\ spos <= Len(ProviderChain)
  /\ SearchAttempted(store_agent, ProviderChain[spos], sresults, slimit)
  /\ \E items \in SearchAnswers(ProviderChain[spos]) :
       /\ sresults' = sresults \o items
       /\ scalls' = Append(scalls, [ provider |-> ProviderChain[spos],
                                     had |-> sresults, raised |-> FALSE,
                                     items |-> items ])
  /\ IF ReturnsEarly(spos, sresults', slimit)
       THEN spc' = "done" /\ sret' = Take(sresults', slimit) /\ spos' = spos
       ELSE spc' = "walk" /\ sret' = sret /\ spos' = spos + 1
  /\ UNCHANGED <<chatVars, configVars, keyVars, catalogVars, queryVars, faissVars, wireVars, handlerVars, loopVars, enrichVars,
                 slimit>>

\* The provider at spos is asked and its call raises.
SearchProviderRaises ==
  /\ spc = "walk"
  /\ spos <= Len(ProviderChain)
  /\ SearchAttempted(store_agent, ProviderChain[spos], sresults, slimit)
  /\ scalls' = Append(scalls, [ provider |-> ProviderChain[spos],
                                had |-> sresults, raised |-> TRUE,
                                items |-> <<>> ])
  /\ spc' = ProviderRaised(sresults).pc
  /\ sresults' = ProviderRaised(sresults).results
  /\ spos' = spos + 1
  /\ UNCHANGED <<chatVars, configVars, keyVars, catalogVars, queryVars, faissVars, wireVars, handlerVars, loopVars, enrichVars,
                 slimit, sret>>

\* After the last provider: the mock fallback when nothing was found, then
\* `return results[:limit]`.
SearchFinish ==
  /\ spc = "walk"
  /\ spos > Len(ProviderChain)
  /\ sret' = Take(IF sresults = <<>>
                    THEN MockArtwork(slimit) ELSE sresults, slimit)
  /\ spc' = "done"
  /\ UNCHANGED <<chatVars, configVars, keyVars, catalogVars, queryVars, faissVars, wireVars, handlerVars, loopVars, enrichVars,
                 slimit, spos, sresults, scalls>>

\* The caller has the list (or the exception); the agent serves a next call.
SearchReturn ==
  /\ spc \in { "done", "raised" }
  /\ slimit' = 0
  /\ spc' = "idle"
  /\ spos' = 0
  /\ sresults' = <<>>
  /\ scalls' = <<>>
  /\ sret' = <<>>
  /\ UNCHANGED <<chatVars, configVars, keyVars, catalogVars, queryVars, faissVars, wireVars, handlerVars, loopVars, enrichVars>>

SearchNext ==
  \/ SearchCall
  \/ SearchSkip
  \/ SearchProviderReturns
  \/ SearchProviderRaises
  \/ SearchFinish
  \/ SearchReturn

SpecSearch == SearchInit /\ [][SearchNext]_vars

\* The position of a provider in the priority order Unsplash, Tavily,
\* Pixabay, Pexels, Google.
PriorityRank ==
  [ unsplash |-> 1, tavily |-> 2, pixabay |-> 3, pexels |-> 4, google |-> 5 ]

\* The items the first n calls returned, in the order of the calls.
RECURSIVE CallItems(_, _)
CallItems(calls, n) ==
  IF n = 0 THEN <<>> ELSE CallItems(calls, n - 1) \o calls[n].items

C13_MissingKeyOrRaiseGoesOn ==
  /\ spc # "raised"
  /\ \A a \in 1..Len(scalls) :
       /\ scalls[a].provider \in store_agent
       /\ scalls[a].had = CallItems(scalls, a - 1)
       /\ scalls[a].raised => scalls[a].items = <<>>
  /\ spc \in { "walk", "done" } => sresults = CallItems(scalls, Len(scalls))
  /\ spc = "done" =>
       \A p \in store_agent :
         \/ \E a \in 1..Len(scalls) : scalls[a].provider = p
         \/ \E a \in 1..Len(scalls) :
              /\ PriorityRank[scalls[a].provider] < PriorityRank[p]
              /\ Len(CallItems(scalls, a)) >= slimit

\* A call in which a provider raised after an earlier one had answered, a
\* later one was then asked, a provider had no credential, and the results
\* of the first are returned.
C13_Witness ==
  /\ spc = "done"
  /\ store_agent # Providers
  /\ \E a, b, c \in 1..Len(scalls) :
       /\ a < b /\ b < c
       /\ scalls[a].items # <<>>
       /\ scalls[b].raised
       /\ sret # <<>>
       /\ sret[1] = scalls[a].items[1]

(***************************************************************************)
(* get_recommendations over an index of three vectors.                     *)
(***************************************************************************)

\* The index scripts/init_faiss.py writes, cut to three entries: the
\* metadata hold id, title and style, and no image_url.
InitFaissIndex ==
  IndexFile("good", 3, << Meta("test_1", Absent, "Modern"),
                          Meta("test_2", Absent, "Abstract"),
                          Meta("test_3", Absent, "Minimalist") >>)

FallbackInit ==
  /\ environ = {}
  /\ chat_agent = ChatAgentInit(environ)
  /\ cpc = "idle"
  /\ cargs = NoArgs
  /\ cattempted = None
  /\ cret = NoText
  /\ store_agent \in { {}, { "unsplash" } }
  /\ LOCAL_CATALOG \in Catalogs
  /\ index_file = InitFaissIndex
  /\ faiss_client = NoClient
  /\ HandlerIdle
  /\ LoopIdle
  /\ EnrichIdle
  /\ KeyIdle
  /\ CatalogIdle
  /\ QueryIdle
  /\ FaissIdle
  /\ BodyIdle
  /\ SearchIdle

SpecFallback == FallbackInit /\ [][Next]_vars

\* Every store lookup of the request timed out and every task returned its
\* recommendation.
AllLookupsTimedOut ==
  /\ pc = "done"
  /\ request.endpoint = "full"
  /\ request.style_vector = "given"
  /\ Len(tasks) = 3
  /\ \A i \in 1..Len(tasks) : tasks[i].st = "done" /\ ~tasks[i].enriched

\* C14: with limit = 3, an index of at least 3 vectors and every store
\* lookup timing out, get_recommendations answers with 3 recommendations,
\* each one a FAISS candidate with its FAISS metadata (not enriched), no two
\* with the same visual identity key.
C14_TimeoutsReturnThreeCandidates ==
  (AllLookupsTimedOut /\ request.limit = 3 /\ index_file.ntotal >= 3) =>
    /\ response.status = 200
    /\ Len(response.recommendations) = 3
    /\ \A r \in 1..Len(response.recommendations) :
         /\ response.recommendations[r].origin = "faiss"
         /\ ~response.recommendations[r].enriched
         /\ \E i \in 1..Len(candidates) :
              response.recommendations[r].id = candidates[i].meta.id
    /\ \A a, b \in 1..Len(response.recommendations) :
         a # b => KeyOf(response.recommendations[a])
                    # KeyOf(response.recommendations[b])

\* C15: with an empty vector index and a zero style vector (a style vector
\* is given; the search of an empty index returns before the vector is
\* read), get_recommendations answers 200 with recommendations = [],
\* total_matches = 0 and trends = [].
C15_EmptyIndexEmptyResponse ==
  ( /\ pc = "done"
    /\ request.endpoint = "full"
    /\ request.style_vector = "given"
    /\ index_file.state = "absent" ) =>
    /\ response.status = 200
    /\ response.recommendations = <<>>
    /\ response.total_matches = 0
    /\ response.trends = <<>>

(***************************************************************************)
(* Validation of the request body (models/recommendation.py) in front of   *)
(* get_recommendations and get_fast_recommendations.                       *)
(***************************************************************************)

\* limit: int = Field(default=3, ge=1, le=50, ...).
LimitMin == 1
LimitMax == 50

\* pydantic's validation of limit: a value outside ge..le is an error.
LimitField(limit) ==
  [ ok |-> limit >= LimitMin /\ limit <= LimitMax, limit |-> limit ]

\* FastAPI's answer to a body that fails validation.
Http422 ==
  [ status |-> 422, recommendations |-> <<>>, total_matches |-> 0, trends |-> <<>> ]

\* The values of limit a body may carry.
RawLimits == { LimitMin - 1, LimitMin, LimitMax, LimitMax + 1 }

Bodies ==
  { [ endpoint |-> e, limit |-> l, style_vector |-> "empty", qdist |-> <<>>,
      style |-> None ] :
      e \in { "full", "fast" }, l \in RawLimits }
  \cup
  { [ endpoint |-> e, limit |-> l, style_vector |-> "given", qdist |-> q,
      style |-> None ] :
      e \in { "full", "fast" }, l \in RawLimits,
      q \in [ 1..index_file.ntotal -> 0..MaxDist ] }

ValidateInit ==
  /\ environ = {}
  /\ chat_agent = ChatAgentInit(environ)
  /\ cpc = "idle"
  /\ cargs = NoArgs
  /\ cattempted = None
  /\ cret = NoText
  /\ store_agent \in { {}, { "unsplash" } }
  /\ LOCAL_CATALOG \in Catalogs
  /\ index_file \in { f \in IndexFiles : f.state = "absent" \/ f.ntotal > 0 }
  /\ faiss_client = NoClient
  /\ HandlerIdle
  /\ LoopIdle
  /\ EnrichIdle
  /\ KeyIdle
  /\ CatalogIdle
  /\ QueryIdle
  /\ FaissIdle
  /\ BodyIdle
  /\ SearchIdle

\* A body arrives: FastAPI builds the RecommendationRequest and calls the
\* handler, or answers 422 without calling it.
ReceiveRequest ==
  /\ pc = "idle"
  /\ \E b \in Bodies :
       /\ body' = b
       /\ IF LimitField(b.limit).ok
            THEN /\ request' = [ b EXCEPT !.limit = LimitField(b.limit).limit ]
                 /\ pc' = IF b.endpoint = "full" THEN "trends" ELSE "fast_start"
                 /\ response' = response
            ELSE /\ request' = request
                 /\ pc' = "done"
                 /\ response' = Http422
  /\ UNCHANGED <<chatVars, configVars, keyVars, catalogVars, queryVars, faissVars, searchVars, loopVars, enrichVars,
                 faiss_client, trends, candidates, tasks, recommendations,
                 local_recs, work>>

ValidateNext ==
  \/ ReceiveRequest
  \/ FullNext
  \/ FastStart
  \/ FastOnlineReturns
  \/ FastOnlineTimesOut
  \/ HandlerReturn

SpecValidate == ValidateInit /\ [][ValidateNext]_vars

\* C16: a recommend request whose limit lies outside 1..50 is not rejected:
\* it is served with limit moved into 1..50, and the handler works with the
\* clamped limit from its first step on.
C16_LimitClampedNotRejected ==
  (pc # "idle" /\ (body.limit < 1 \/ body.limit > 50)) =>
    /\ response.status # 422
    /\ request.limit = (IF body.limit < 1 THEN 1 ELSE 50)

\* C17: when the index file exists but cannot be loaded, constructing the
\* FAISSClient yields a fresh empty index instead of failing, the search
\* finds no candidate and the recommend endpoints answer as in the
\* zero-candidate case.
C17_UnloadableIndexIsEmptyIndex ==
  (pc = "done" /\ index_file.state \in { "corrupt", "nometa" }) =>
    /\ response.status = 200
    /\ faiss_client = FaissClient(0, <<>>)
    /\ candidates = <<>>

(***************************************************************************)
(* FAISSClient.search and search_by_style on numpy arrays                  *)
(* (db/faiss_client.py).                                                   *)
(***************************************************************************)

\* ---- bounds ----
MaxVectors == 3   \* the index holds 0..MaxVectors vectors
MaxK == 2         \* search and search_by_style are called with k in 1..MaxK

\* The directions a vector of the model may have.
Dirs == 1..3

\* The vectors (unit length: add_vectors normalises them) and metadata of
\* the artworks an index may hold, in insertion order.  The third entry is
\* one of scripts/init_faiss.py (no price), the others are entries of
\* scripts/seed_artworks.py.
PoolVectors == << 1, 2, 1, 3, 2 >>

FaissMeta(id, style, has_price, price) ==
  [ id |-> id, image_url |-> Absent, style |-> style, has_price |-> has_price,
    price |-> price ]

PoolMetadata ==
  << FaissMeta("art_1", "Modern", TRUE, 249),
     FaissMeta("art_2", "Abstract", TRUE, 129),
     FaissMeta("test_3", "Modern", FALSE, 0),
     FaissMeta("art_4", "Abstract", TRUE, 99),
     FaissMeta("art_5", "Modern", TRUE, 189) >>

\* Index files: none, one with its side metadata file, one without it.
FaissIndexFiles ==
  { IndexFile("absent", 0, <<>>) }
    \cup { IndexFile("good", n, Take(PoolMetadata, n)) : n \in 1..MaxVectors }
    \cup { IndexFile("nometa", n, <<>>) : n \in 1..MaxVectors }

\* The arrays a caller may pass: the zero vector, or a vector of some
\* direction, of unit length or not, of shape (d,) or (1, d).
QueryArrays ==
  { a \in [ value : [ dir : { 0 } \cup Dirs, unit : BOOLEAN ], ndim : { 1, 2 } ] :
      a.value.dir = 0 => ~a.value.unit }

FilterInputs ==
  { NoFilters,
    Filters(FALSE, {}, 0, 0, None),
    Filters(FALSE, { "price_range" }, 0, 150, None),
    Filters(FALSE, { "style" }, 0, 0, "Abstract"),
    Filters(FALSE, { "price_range", "style" }, 100, 300, "Modern") }

\* An astype that hands back the array it was given: not numpy's default.
AsTypeInPlace(bufs, ref) == [ bufs |-> bufs, ref |-> ref ]

\* ndarray.astype(np.float32): a new array with a buffer of its own
\* (copy=True is the default), whatever the dtype was.  bufs is the list of
\* the buffers that exist, ref the buffer of the array.
AsType(bufs, ref) == [ bufs |-> Append(bufs, bufs[ref]), ref |-> Len(bufs) + 1 ]

\* ndarray.reshape(1, -1): a view on the buffer of the array.
Reshape(bufs, ref) == [ bufs |-> bufs, ref |-> ref ]

\* faiss.normalize_L2(x): scales x in place; a zero vector stays as it is.
NormalizeL2(bufs, ref) ==
  [ bufs EXCEPT ![ref] = IF @.dir = 0 THEN @ ELSE ArrayValue(@.dir, TRUE) ]

\* The distance index.search computes between a normalised query and an
\* indexed vector (in units of 1/DistDen): 0 for the same direction.
VectorDist(q, v) ==
  IF q.dir = 0 THEN 1 ELSE IF q.dir >= v THEN q.dir - v ELSE v - q.dir

\* FAISSClient.search(query_vector, k) on the buffers bufs, query_vector
\* being the array with buffer ref: the buffers after the call and the
\* (distance, metadata) pairs returned.
search(client, vectors, bufs, ref, ndim, k) ==
  IF client.ntotal = 0 THEN [ bufs |-> bufs, out |-> <<>> ]
  ELSE LET view == IF ndim = 1 THEN Reshape(bufs, ref)
                   ELSE [ bufs |-> bufs, ref |-> ref ]
           copy == AsType(view.bufs, view.ref)
           normed == NormalizeL2(copy.bufs, copy.ref)
           qdist == [ i \in 1..client.ntotal |->
                        VectorDist(normed[copy.ref], vectors[i]) ]
       IN  [ bufs |-> normed, out |-> FaissSearch(client, qdist, k) ]

\* `if filters:` is true of a dict that is not empty.
FiltersGiven(filters) == ~filters.none /\ filters.keys # {}

\* A search_k without over-fetching: not the code's.
SearchKNoOverfetch(filters, k) == k

\* search_k = k * 3 if filters else k.
SearchK(filters, k) == IF FiltersGiven(filters) THEN k * 3 ELSE k

\* meta.get("price", 0).
MetaPrice(meta) == IF meta.has_price THEN meta.price ELSE 0

\* The two tests of the loop body: an entry that fails one is skipped.
PassesFilters(meta, filters) ==
  /\ "price_range" \in filters.keys =>
       /\ filters.price_range[1] <= MetaPrice(meta)
       /\ MetaPrice(meta) <= filters.price_range[2]
  /\ "style" \in filters.keys => meta.style = filters.style

\* The loop of search_by_style over zip(distances, results), which breaks
\* once k entries are kept.
RECURSIVE FilterLoop(_, _, _, _)
FilterLoop(rest, filters, k, kept) ==
  IF rest = <<>> THEN kept
  ELSE IF ~PassesFilters(Head(rest).meta, filters)
    THEN FilterLoop(Tail(rest), filters, k, kept)
  ELSE IF Len(kept) + 1 >= k THEN Append(kept, Head(rest))
  ELSE FilterLoop(Tail(rest), filters, k, Append(kept, Head(rest)))

\* FAISSClient.search_by_style(style_embedding, filters, k).
search_by_style(client, vectors, bufs, ref, ndim, filters, k) ==
  LET found == search(client, vectors, bufs, ref, ndim, SearchK(filters, k))
  IN  [ bufs |-> found.bufs,
        out |-> IF FiltersGiven(filters)
                  THEN Take(FilterLoop(found.out, filters, k, <<>>), k)
                  ELSE Take(found.out, k) ]

FaissInit ==
  /\ environ = {}
  /\ chat_agent = ChatAgentInit(environ)
  /\ cpc = "idle"
  /\ cargs = NoArgs
  /\ cattempted = None
  /\ cret = NoText
  /\ store_agent = {}
  /\ LOCAL_CATALOG \in Catalogs
  /\ index_file \in FaissIndexFiles
  /\ faiss_client = FaissClientInit(index_file).client
  /\ HandlerIdle
  /\ LoopIdle
  /\ EnrichIdle
  /\ KeyIdle
  /\ CatalogIdle
  /\ QueryIdle
  /\ BodyIdle
  /\ SearchIdle
  /\ fvectors = Take(PoolVectors, index_file.ntotal)
  /\ fquery = ArrayValue(0, FALSE)
  /\ fout = NoCall
  /\ fagain = NoAgain

\* A caller that holds no result passes its array to search: the array
\* after the call and what the call returned.
FaissSearchCall ==
  \E q \in QueryArrays, k \in 1..MaxK :
    LET r == search(faiss_client, fvectors, << q.value >>, 1, q.ndim, k)
    IN  /\ fout.op = "none"
        /\ fquery' = r.bufs[1]
        /\ fout' = [ op |-> "search", query |-> q, k |-> k,
                     filters |-> NoFilters, result |-> r.out ]
        /\ fagain' = NoAgain
        /\ UNCHANGED <<chatVars, configVars, keyVars, catalogVars, queryVars, wireVars, searchVars, handlerVars,
                       loopVars, enrichVars, fvectors>>

\* A caller passes its array to search_by_style.
FaissSearchByStyleCall ==
  \E q \in QueryArrays, filters \in FilterInputs, k \in 1..MaxK :
    LET r == search_by_style(faiss_client, fvectors, << q.value >>, 1, q.ndim,
                             filters, k)
    IN  /\ fout.op = "none"
        /\ fquery' = r.bufs[1]
        /\ fout' = [ op |-> "search_by_style", query |-> q, k |-> k,
                     filters |-> filters, result |-> r.out ]
        /\ fagain' = NoAgain
        /\ UNCHANGED <<chatVars, configVars, keyVars, catalogVars, queryVars, wireVars, searchVars, handlerVars,
                       loopVars, enrichVars, fvectors>>

\* The caller makes its last call once more, with the same array object.
FaissCallAgain ==
  /\ fout.op # "none"
  /\ ~fagain.done
  /\ LET r == IF fout.op = "search"
                THEN search(faiss_client, fvectors, << fquery >>, 1,
                            fout.query.ndim, fout.k)
                ELSE search_by_style(faiss_client, fvectors, << fquery >>, 1,
                                     fout.query.ndim, fout.filters, fout.k)
     IN  /\ fquery' = r.bufs[1]
         /\ fagain' = [ done |-> TRUE, result |-> r.out ]
  /\ UNCHANGED <<chatVars, configVars, keyVars, catalogVars, queryVars, wireVars, searchVars, handlerVars,
                 loopVars, enrichVars, fvectors, fout>>

\* A handler reads the catalog: get_local_catalog_recommendations(style, 2).
CatalogRead ==
  /\ fout.op = "none"
  /\ local_recs = <<>>
  /\ \E style \in { "Modern", "Rustic" } :
       local_recs' \in get_local_catalog_recommendations(LOCAL_CATALOG, style,
                                                          LocalQuota)
  /\ UNCHANGED <<chatVars, configVars, keyVars, catalogVars, queryVars, wireVars, searchVars, loopVars,
                 enrichVars, faissVars, faiss_client, request, pc, trends,
                 candidates, tasks, recommendations, work, response>>

\* The caller drops what it holds: its array and the lists returned to it.
FaissForget ==
  /\ fout.op # "none" \/ local_recs # <<>>
  /\ fquery' = ArrayValue(0, FALSE)
  /\ fout' = NoCall
  /\ fagain' = NoAgain
  /\ local_recs' = <<>>
  /\ UNCHANGED <<chatVars, configVars, keyVars, catalogVars, queryVars, wireVars, searchVars, loopVars,
                 enrichVars, fvectors, faiss_client, request, pc, trends,
                 candidates, tasks, recommendations, work, response>>

FaissNext ==
  \/ FaissSearchCall
  \/ FaissSearchByStyleCall
  \/ FaissCallAgain
  \/ CatalogRead
  \/ FaissForget

SpecFaiss == FaissInit /\ [][FaissNext]_vars

\* The direction of the query of the last call.
LastQueryDir == fout.query.value.dir

\* C18: search(vector, k) returns at most min(k, index size) results, in
\* non-decreasing distance order, each distance paired with the metadata
\* entry of the vector it is the distance to (no vector counted twice); on
\* an empty index it returns the empty result.
C18_SearchNearestFirstPaired ==
  fout.op = "search" =>
    /\ Len(fout.result) <= Min(fout.k, Len(fvectors))
    /\ \A r \in 1..(Len(fout.result) - 1) :
         fout.result[r].dist <= fout.result[r + 1].dist
    /\ \E f \in [ 1..Len(fout.result) -> 1..Len(fvectors) ] :
         /\ \A a, b \in 1..Len(fout.result) : a # b => f[a] # f[b]
         /\ \A r \in 1..Len(fout.result) :
              /\ f[r] <= Len(faiss_client.metadata)
              /\ fout.result[r].meta = faiss_client.metadata[f[r]]
              /\ fout.result[r].dist =
                   (IF LastQueryDir = 0 THEN 1
                    ELSE IF LastQueryDir >= fvectors[f[r]]
                      THEN LastQueryDir - fvectors[f[r]]
                    ELSE fvectors[f[r]] - LastQueryDir)
    /\ Len(fvectors) = 0 => fout.result = <<>>

\* A search whose nearest vector is not the first one inserted, with two
\* results at different distances.
C18_Witness ==
  /\ fout.op = "search"
  /\ Len(fout.result) = 2
  /\ fout.result[1].dist < fout.result[2].dist
  /\ fout.result[1].meta = faiss_client.metadata[2]

Satisfies(meta) ==
  /\ "price_range" \in fout.filters.keys =>
       (IF meta.has_price THEN meta.price ELSE 0)
         \in fout.filters.price_range[1]..fout.filters.price_range[2]
  /\ "style" \in fout.filters.keys => meta.style = fout.filters.style

\* search(vector, n) for the query of the last call.
LastQuerySearch(n) ==
  FaissSearch(faiss_client,
              [ i \in 1..Len(fvectors) |->
                  IF LastQueryDir = 0 THEN 1
                  ELSE IF LastQueryDir >= fvectors[i]
                    THEN LastQueryDir - fvectors[i]
                  ELSE fvectors[i] - LastQueryDir ], n)

add_vectors(client, vecs, metadata) ==
  LET start_id == client.ntotal
  IN  [ client |-> FaissClient(client.ntotal + Len(vecs),
                               client.metadata \o metadata),
        ids |-> [ r \in 1..Len(vecs) |-> start_id + r - 1 ] ]

\* load_index on a live object: read_index raises when the file is absent
\* or unreadable; self.metadata is replaced only when the side file exists.
load_index(client, file) ==
  CASE file.state \in { "absent", "corrupt" } -> client
    [] file.state = "nometa" -> FaissClient(file.ntotal, client.metadata)
    [] file.state = "good"   -> FaissClient(file.ntotal, file.metadata)

\* The files a script may find when it starts.
IndexInit ==
  /\ environ = {}
  /\ chat_agent = ChatAgentInit(environ)
  /\ cpc = "idle"
  /\ cargs = NoArgs
  /\ cattempted = None
  /\ cret = NoText
  /\ store_agent = {}
  /\ LOCAL_CATALOG \in Catalogs
  /\ index_file \in FaissIndexFiles
  /\ faiss_client = NoClient
  /\ HandlerIdle
  /\ LoopIdle
  /\ EnrichIdle
  /\ KeyIdle
  /\ CatalogIdle
  /\ QueryIdle
  /\ FaissIdle
  /\ BodyIdle
  /\ SearchIdle

\* FAISSClient(): the script constructs its client.
IndexConstruct ==
  /\ faiss_client = NoClient
  /\ ~FaissClientInit(index_file).raised
  /\ faiss_client' = FaissClientInit(index_file).client
  /\ fvectors' = Take(PoolVectors, index_file.ntotal)
  /\ fout' = NoCall
  /\ UNCHANGED <<chatVars, configVars, keyVars, catalogVars, queryVars, wireVars, searchVars, loopVars,
                 enrichVars, fquery, fagain, request, pc, trends, candidates,
                 tasks, recommendations, local_recs, work, response>>

\* add_vectors(embeddings, metadata_list): the script adds the next n
\* artworks of the pool, each with its own metadata entry.
IndexAddVectors ==
  \E n \in 1..MaxK :
    LET first == faiss_client.ntotal + 1
        last == faiss_client.ntotal + n
        r == add_vectors(faiss_client, SubSeq(PoolVectors, first, last),
                         SubSeq(PoolMetadata, first, last))
    IN  /\ faiss_client # NoClient
        /\ last <= MaxVectors
        /\ Len(faiss_client.metadata) + n <= MaxVectors  \* keeps the lists bounded
        /\ faiss_client' = r.client
        /\ fvectors' = fvectors \o SubSeq(PoolVectors, first, last)
        /\ fout' = [ op |-> "add_vectors",
                     query |-> [ value |-> ArrayValue(0, FALSE), ndim |-> 2 ],
                     k |-> n, filters |-> NoFilters, result |-> r.ids ]
        /\ UNCHANGED <<chatVars, configVars, keyVars, catalogVars, queryVars, wireVars, searchVars, loopVars,
                       enrichVars, fquery, fagain, request, pc, trends,
                       candidates, tasks, recommendations, local_recs, work,
                       response>>

\* save_index(): the index file is written, then the side metadata file.
IndexSave ==
  /\ faiss_client # NoClient
  /\ index_file' = IndexFile("good", faiss_client.ntotal, faiss_client.metadata)
  /\ fout' = NoCall
  /\ UNCHANGED <<chatVars, store_agent, LOCAL_CATALOG, keyVars, catalogVars, queryVars,
                 wireVars, searchVars,
                 loopVars, enrichVars, fvectors, fquery, fagain, faiss_client,
                 request, pc, trends, candidates, tasks, recommendations,
                 local_recs, work, response>>

\* load_index(): the live object reads the files again.
IndexLoad ==
  /\ faiss_client # NoClient
  /\ index_file.state \in { "nometa", "good" }
  /\ faiss_client' = load_index(faiss_client, index_file)
  /\ fvectors' = Take(PoolVectors, index_file.ntotal)
  /\ fout' = NoCall
  /\ UNCHANGED <<chatVars, configVars, keyVars, catalogVars, queryVars, wireVars, searchVars, loopVars,
                 enrichVars, fquery, fagain, request, pc, trends, candidates,
                 tasks, recommendations, local_recs, work, response>>

\* The script ends; the next one starts without a client.
IndexExit ==
  /\ faiss_client # NoClient
  /\ faiss_client' = NoClient
  /\ fvectors' = <<>>
  /\ fout' = NoCall
  /\ UNCHANGED <<chatVars, configVars, keyVars, catalogVars, queryVars, wireVars, searchVars, loopVars,
                 enrichVars, fquery, fagain, request, pc, trends, candidates,
                 tasks, recommendations, local_recs, work, response>>

IndexNext ==
  \/ IndexConstruct
  \/ IndexAddVectors
  \/ IndexSave
  \/ IndexLoad
  \/ IndexExit

SpecIndex == IndexInit /\ [][IndexNext]_vars

\* What the last add_vectors returned: n ids, consecutive, the last of them
\* the new count minus one.
AddReturnsConsecutiveIds ==
  fout.op = "add_vectors" =>
    /\ Len(fout.result) = fout.k
    /\ \A r \in 1..Len(fout.result) :
         fout.result[r] = faiss_client.ntotal - fout.k + r - 1

\* C21: whenever a client is live, its metadata list is as long as the
\* index and entry i is the metadata of the i-th vector added; an
\* add_vectors of n vectors raises the count by n and returns the n
\* consecutive new ids.
C21_MetadataAlignedWithIndex ==
  /\ faiss_client # NoClient =>
       /\ Len(faiss_client.metadata) = faiss_client.ntotal
       /\ \A i \in 1..Len(faiss_client.metadata) :
            faiss_client.metadata[i] = PoolMetadata[i]
  /\ AddReturnsConsecutiveIds

\* ---------------------------------------------------------------------
\* The score of a FAISS candidate.
\* ---------------------------------------------------------------------

\* The (distance, match_score) pairs of the FAISS candidates among recs:
\* a recommendation belongs to the candidate whose metadata id it carries.
FaissScored(recs) ==
  { << candidates[ir[1]].dist, recs[ir[2]].match_score >> :
      ir \in { x \in (1..Len(candidates)) \X (1..Len(recs)) :
                 /\ recs[x[2]].origin = "faiss"
                 /\ recs[x[2]].id = candidates[x[1]].meta.id } }

\* The pairs of the handler's list and of the response it built.
ScoredPairs ==
  FaissScored(recommendations)
    \cup (IF Answered THEN FaissScored(response.recommendations) ELSE {})

\* C22: the match_score s of a FAISS candidate at distance d (dist/DistDen)
\* satisfies s * (1 + d) = 100, lies in (0, 100], is 100 at d = 0, and of
\* two candidates the nearer one has the strictly higher score.
C22_ScoreIsHundredOverOnePlusDistance ==
  /\ \A p \in ScoredPairs :
       /\ p[1] >= 0
       /\ p[2][1] * (DistDen + p[1]) = 100 * DistDen * p[2][2]
       /\ FracLt(Frac(0, 1), p[2]) /\ FracLeq(p[2], Frac(100, 1))
       /\ p[1] = 0 => FracEq(p[2], Frac(100, 1))
  /\ \A p, q \in ScoredPairs : p[1] < q[1] => FracLt(q[2], p[2])

\* A response of either endpoint with an exact match (d = 0) and a
\* candidate further away.
C22_Witness ==
  /\ Answered
  /\ \E p, q \in FaissScored(response.recommendations) :
       p[1] = 0 /\ q[1] > 0

\* ---------------------------------------------------------------------
\* The fast endpoint: where its recommendations come from and what
\* reasoning they carry.
\* ---------------------------------------------------------------------

\* get_fast_recommendations has returned a RecommendationResponse.
FastAnswered == Answered /\ request.endpoint = "fast"

\* C23: the fast endpoint never waits for a provider of the store agent
\* (one is asked only when the agent holds a credential) and never calls
\* the reasoning generator: every recommendation it returns comes from the
\* FAISS search or from the local catalog.
C23_FastUsesFaissAndCatalogOnly ==
  /\ request.endpoint = "fast" =>
       /\ store_agent # {} => pc # "fast_online"
       /\ cpc = "idle"
  /\ FastAnswered =>
       \A r \in 1..Len(response.recommendations) :
         response.recommendations[r].origin \in { "faiss", "catalog" }

\* C24: every recommendation the fast endpoint returns carries a non-empty
\* templated reasoning: the sentence for a FAISS candidate or the sentence
\* for a catalog item.
C24_FastReasoningNonEmpty ==
  FastAnswered =>
    \A r \in 1..Len(response.recommendations) :
      /\ response.recommendations[r].reasoning # EmptyText
      /\ response.recommendations[r].reasoning.kind
           \in { "fast_template", "fast_local" }

\* ---------------------------------------------------------------------
\* The life of an enrichment task of get_recommendations.
\* ---------------------------------------------------------------------

\* Where the store lookup of a task stands: being awaited ("fetching"),
\* answered with a result that replaced the FAISS fields ("enriched"), or
\* ended by a timeout, an exception or an empty answer ("fallback": the
\* FAISS fields stay).  A candidate without a task is pending.
TaskPhase(t) ==
  IF t.st = "fetching" THEN "fetching"
  ELSE IF t.enriched THEN "enriched" ELSE "fallback"

\* One step of a request in progress: no task goes back to pending, a
\* fetching task stays or ends its lookup, and an ended lookup stays as it
\* ended.
TaskStep ==
  pc # "done" =>
    /\ Len(tasks') >= Len(tasks)
    /\ \A i \in 1..Len(tasks) :
         \/ TaskPhase(tasks'[i]) = TaskPhase(tasks[i])
         \/ /\ TaskPhase(tasks[i]) = "fetching"
            /\ TaskPhase(tasks'[i]) \in { "enriched", "fallback" }

\* The step that ends the join finds every task finished, its lookup ended.
JoinStep ==
  (pc = "gather" /\ pc' # "gather") =>
    \A i \in 1..Len(tasks) :
      /\ TaskPhase(tasks[i]) \in { "enriched", "fallback" }
      /\ tasks[i].st \in { "done", "raised" }

\* get_recommendations up to the end of its join: the request, the trends,
\* the FAISS search, the tasks and asyncio.gather.
JoinSteps ==
  \/ TrendsReturn
  \/ TrendsRaise
  \/ FaissStep
  \/ \E i \in 1..Len(tasks) : StoreLookupReturns(i)
  \/ \E i \in 1..Len(tasks) : StoreLookupTimesOut(i)
  \/ \E i \in 1..Len(tasks) : TaskReasoning(i)
  \/ GatherDone

JoinNext ==
  \/ StartRequest
  \/ JoinSteps

\* A step the event loop can take before the join has ended is eventually
\* taken.
SpecJoin == FairInit /\ [][JoinNext]_vars /\ WF_vars(JoinSteps)

C26_OnlyUsableResultApplied ==
  \A i \in 1..Len(tasks) :
    (tasks[i].st # "fetching" /\ tasks[i].enriched) =>
      /\ tasks[i].image_url # None
      /\ tasks[i].image_url # "placeholder"

\* ---------------------------------------------------------------------
\* The search query of a task: _process_artwork_recommendation, the lines
\* that build search_query from the candidate's metadata and its index.
\* ---------------------------------------------------------------------

\* ---- bounds ----
MaxCandidates == 3   \* a request has 1..MaxCandidates FAISS candidates

QueryMeta(id, style, tags) == [ id |-> id, style |-> style, tags |-> tags ]

\* Metadata entries of scripts/seed_artworks.py (with tags) and of
\* scripts/init_faiss.py (without).
QueryPool ==
  { QueryMeta("art_1", "Modern",
              << "Abstract", "Geometric", "Minimalist", "Neutral" >>),
    QueryMeta("art_3", "Abstract",
              << "Watercolor", "Warm Tones", "Abstract", "Sunset" >>),
    QueryMeta("art_8", "Abstract",
              << "Abstract", "Blue", "Waves", "Coastal" >>),
    QueryMeta("test_1", "Modern", <<>>),
    QueryMeta("test_2", "Abstract", <<>>) }

\* What a FAISS search may return: distinct entries in some order.
CandidateLists ==
  { c \in SeqsUpTo(QueryPool, MaxCandidates) :
      /\ c # <<>>
      /\ \A a, b \in 1..Len(c) : a # b => c[a] # c[b] }

variations == << "wall art", "canvas print", "framed art", "poster print" >>

\* search_query for the candidate artwork_meta of index idx (from 0), as
\* the parts the f-string joins with blanks.
search_query(artwork_meta, idx) ==
  LET style == artwork_meta.style
      tags == artwork_meta.tags
  IN  IF tags # <<>> /\ Len(tags) > idx
        THEN << style, tags[idx + 1], "wall art" >>
      ELSE IF tags # <<>>
        THEN << style, tags[1], "art print" >>
      ELSE << style, variations[(idx % Len(variations)) + 1] >>

QueryInit ==
  /\ environ = {}
  /\ chat_agent = ChatAgentInit(environ)
  /\ cpc = "idle"
  /\ cargs = NoArgs
  /\ cattempted = None
  /\ cret = NoText
  /\ store_agent = {}
  /\ LOCAL_CATALOG = <<>>
  /\ index_file = IndexFile("absent", 0, <<>>)
  /\ faiss_client = NoClient
  /\ HandlerIdle
  /\ LoopIdle
  /\ EnrichIdle
  /\ KeyIdle
  /\ CatalogIdle
  /\ QueryIdle
  /\ FaissIdle
  /\ BodyIdle
  /\ SearchIdle

\* The FAISS search of a request returns its candidates.
QueryCandidates ==
  /\ candidates = <<>>
  /\ candidates' \in CandidateLists
  /\ UNCHANGED <<chatVars, configVars, keyVars, catalogVars, queryVars, faissVars, wireVars,
                 searchVars, loopVars, enrichVars, faiss_client, request, pc,
                 trends, tasks, recommendations, local_recs, work, response>>

\* The next task starts and builds its query.
QueryBuild ==
  /\ Len(search_queries) < Len(candidates)
  /\ LET idx == Len(search_queries)
     IN  search_queries' =
           Append(search_queries, search_query(candidates[idx + 1], idx))
  /\ UNCHANGED <<chatVars, configVars, keyVars, catalogVars, faissVars, wireVars, searchVars,
                 loopVars, enrichVars, handlerVars>>

\* The request ends.
QueryForget ==
  /\ candidates # <<>>
  /\ Len(search_queries) = Len(candidates)
  /\ candidates' = <<>>
  /\ search_queries' = <<>>
  /\ UNCHANGED <<chatVars, configVars, keyVars, catalogVars, faissVars, wireVars, searchVars,
                 loopVars, enrichVars, faiss_client, request, pc, trends,
                 tasks, recommendations, local_recs, work, response>>

QueryNext ==
  \/ QueryCandidates
  \/ QueryBuild
  \/ QueryForget

SpecQuery == QueryInit /\ [][QueryNext]_vars

\* C27: within one request any two tasks with different indices have built
\* different search queries.
C27_SiblingQueriesDiffer ==
  \A a, b \in 1..Len(search_queries) :
    a # b => search_queries[a] # search_queries[b]

\* ---------------------------------------------------------------------
\* The shape of the list get_recommendations returns.
\* ---------------------------------------------------------------------

\* get_recommendations has returned a RecommendationResponse.
FullAnswered == Answered /\ request.endpoint = "full"

\* The tasks of the join that returned a recommendation.
Survivors == { i \in 1..Len(tasks) : tasks[i].st = "done" }

MaxCatalog == 3   \* LOCAL_CATALOG holds 0..MaxCatalog items

\* local_catalog.json: any list of different items.
CatalogInputs ==
  { c \in SeqsUpTo({ CAT_ITEM_1, CAT_ITEM_2, CAT_ITEM_3 }, MaxCatalog) :
      \A a, b \in 1..Len(c) : a # b => c[a] # c[b] }

CatalogStyles == { "Modern", "Modern Abstract", "Rustic" }

CatalogInit ==
  /\ environ = {}
  /\ chat_agent = ChatAgentInit(environ)
  /\ cpc = "idle"
  /\ cargs = NoArgs
  /\ cattempted = None
  /\ cret = NoText
  /\ store_agent = {}
  /\ LOCAL_CATALOG \in CatalogInputs
  /\ index_file = IndexFile("absent", 0, <<>>)
  /\ faiss_client = NoClient
  /\ HandlerIdle
  /\ LoopIdle
  /\ EnrichIdle
  /\ KeyIdle
  /\ CatalogIdle
  /\ QueryIdle
  /\ FaissIdle
  /\ BodyIdle
  /\ SearchIdle

\* A caller calls get_local_catalog_recommendations(style, limit).
CatalogCall ==
  /\ cat_call = NoCatalogCall
  /\ \E style \in CatalogStyles, limit \in 1..MaxLimit :
       \E out \in get_local_catalog_recommendations(LOCAL_CATALOG, style, limit) :
         cat_call' = [ style |-> style, limit |-> limit, result |-> out ]
  /\ UNCHANGED <<chatVars, configVars, keyVars, queryVars, faissVars, wireVars,
                 searchVars, loopVars, enrichVars, handlerVars>>

\* The caller drops the list.
CatalogDrop ==
  /\ cat_call # NoCatalogCall
  /\ cat_call' = NoCatalogCall
  /\ UNCHANGED <<chatVars, configVars, keyVars, queryVars, faissVars, wireVars,
                 searchVars, loopVars, enrichVars, handlerVars>>

CatalogNext ==
  \/ CatalogCall
  \/ CatalogDrop

SpecCatalog == CatalogInit /\ [][CatalogNext]_vars

\* The keyword overlap of an item with the style of the last call.
Overlap(item) == KeywordScore(item, StyleKeywords(cat_call.style))

\* C29: the list returned has at most limit entries, all items of the
\* catalog at different positions; when some item of the catalog overlaps
\* the style, every entry overlaps it and the overlaps do not increase along
\* the list; when none does, the list has exactly min(limit, catalog size)
\* entries; the empty catalog gives the empty list.
C29_CatalogSelection ==
  cat_call # NoCatalogCall =>
    LET out == cat_call.result
        some == \E c \in 1..Len(LOCAL_CATALOG) : Overlap(LOCAL_CATALOG[c]) > 0
    IN  /\ Len(out) <= cat_call.limit
        /\ \E f \in [1..Len(out) -> 1..Len(LOCAL_CATALOG)] :
             /\ \A r \in 1..Len(out) : out[r] = LOCAL_CATALOG[f[r]]
             /\ \A a, b \in 1..Len(out) : a # b => f[a] # f[b]
        /\ some =>
             /\ \A r \in 1..Len(out) : Overlap(out[r]) > 0
             /\ \A a, b \in 1..Len(out) :
                  a < b => Overlap(out[a]) >= Overlap(out[b])
        /\ ~some => Len(out) = Min(cat_call.limit, Len(LOCAL_CATALOG))
        /\ LOCAL_CATALOG = <<>> => out = <<>>

\* A call that returned two overlapping items, the second with the smaller
\* overlap and standing before the first in the catalog.
C29_Witness ==
  /\ cat_call # NoCatalogCall
  /\ Len(cat_call.result) = 2
  /\ Overlap(cat_call.result[1]) > Overlap(cat_call.result[2])
  /\ Overlap(cat_call.result[2]) > 0
  /\ LOCAL_CATALOG[1] = cat_call.result[2]

\* ---------------------------------------------------------------------
\* extract_photo_id on URLs that differ in their query string only.
\* ---------------------------------------------------------------------

\* A photo page of unsplash.com: https://unsplash.com/photos/a-b1
TXT_PHOTO_PAGE ==
  << "h","t","t","p","s",":","/","/","u","n","s","p","l","a","s","h",".",
     "c","o","m","/","p","h","o","t","o","s","/","a","-","b","1" >>

\* The URLs of the model without their query strings, and the photo page.
KeyBases ==
  { BeforeQuery(UrlText(u)) : u \in UrlNames } \cup { TXT_PHOTO_PAGE }

\* Query strings: none, ?w=800, ?q=a-b.
KeyQueries ==
  { <<>>, << "?","w","=","8","0","0" >>, << "?","q","=","a","-","b" >> }

KeyInit ==
  /\ environ = {}
  /\ chat_agent = ChatAgentInit(environ)
  /\ cpc = "idle"
  /\ cargs = NoArgs
  /\ cattempted = None
  /\ cret = NoText
  /\ store_agent = {}
  /\ LOCAL_CATALOG = <<>>
  /\ index_file = IndexFile("absent", 0, <<>>)
  /\ faiss_client = NoClient
  /\ HandlerIdle
  /\ LoopIdle
  /\ EnrichIdle
  /\ KeyIdle
  /\ CatalogIdle
  /\ QueryIdle
  /\ FaissIdle
  /\ BodyIdle
  /\ SearchIdle

\* extract_photo_id is applied to one URL with two query strings.
KeyCalls ==
  /\ key_call = NoKeyCall
  /\ \E base \in KeyBases, q1, q2 \in KeyQueries :
       key_call' = [ base |-> base,
                     urls |-> << base \o q1, base \o q2 >>,
                     keys |-> << ExtractPhotoIdText(base \o q1),
                                 ExtractPhotoIdText(base \o q2) >> ]
  /\ UNCHANGED <<chatVars, configVars, catalogVars, queryVars, faissVars,
                 wireVars, searchVars, loopVars, enrichVars, handlerVars>>

\* The keys are dropped.
KeyForget ==
  /\ key_call # NoKeyCall
  /\ key_call' = NoKeyCall
  /\ UNCHANGED <<chatVars, configVars, catalogVars, queryVars, faissVars,
                 wireVars, searchVars, loopVars, enrichVars, handlerVars>>

KeyNext ==
  \/ KeyCalls
  \/ KeyForget

SpecKey == KeyInit /\ [][KeyNext]_vars

\* The text key ends the text base, after a dash.
EndsWithId(base, key) ==
  /\ key # <<>>
  /\ Len(key) < Len(base)
  /\ SubSeq(base, Len(base) - Len(key) + 1, Len(base)) = key
  /\ base[Len(base) - Len(key)] = "-"

\* C30: two URLs that differ in their query string only (one of them may
\* have none) get the same key; the key is the photo id that ends the path
\* of an unsplash.com URL, and the URL without its query string otherwise.
C30_KeyIgnoresQuery ==
  key_call # NoKeyCall =>
    /\ key_call.keys[1] = key_call.keys[2]
    /\ \A n \in 1..2 :
         \/ key_call.keys[n] = key_call.base
         \/ /\ Contains(key_call.base,
                        <<"u","n","s","p","l","a","s","h",".","c","o","m">>)
            /\ EndsWithId(key_call.base, key_call.keys[n])

====
